---- MODULE Spec2Model ----
(***************************************************************************)
(* News backend: authentication / role-gate middleware and the comment     *)
(* moderation service, modelled from the TypeScript sources.               *)
(*                                                                         *)
(*   SpecAuth     the middleware (authenticate, optionalAuthenticate,      *)
(*                requireRole) applied to requests, over a user table      *)
(*                that is deactivated / activated / deleted and a clock.   *)
(*   Spec         the comment HTTP routes: middleware chain, controller,   *)
(*                CommentService, errorHandler; guests comment, every role *)
(*                moderates, edits and deletes.                            *)
(*   SpecOwners   the same routes without moderation; every role comments, *)
(*                edits and deletes.                                       *)
(*   SpecListing  CommentService called directly: comment trees and the    *)
(*                public article listing.                                  *)
(*   SpecUniqueSlug   generateUniqueSlug against a scripted checkExists.   *)
(*   SpecArticles     ArticleService: create, update, publish, archive,    *)
(*                    delete and the publication timestamp.                *)
(*   SpecSlugs        ArticleService with colliding titles.                *)
(*   SpecRace         two createArticle calls interleaved between the slug *)
(*                    lookup and the insert.                               *)
(*   SpecErrors       validate and errorHandler on their own.              *)
(*   SpecPagination   getPagination.                                       *)
(*   SpecTaxonomy     deleteCategory / deleteTag against filed articles.   *)
(*   SpecRoutes       the protected article, comment and category routes:  *)
(*                    handler chain, controller, service.                  *)
(*   SpecGuests       comments against the deletion of articles and users. *)
(*   SpecOwnership    the article routes asked by each role for articles   *)
(*                    of two owners.                                       *)
(*   SpecSessions     login, refresh, logout and changeUserRole beside the *)
(*                    middleware.                                          *)
(*   SpecReads        the public reads of comments.                        *)
(*   SpecReplies      a deleteComment and a createComment interleaved.     *)
(*   SpecMedia        MediaService against the bucket, with failing calls. *)
(***************************************************************************)
EXTENDS Integers, Sequences, FiniteSets, TLC

VARIABLES users, now, mw, comments, nextCommentId, last, listing,
          articles, nextArticleId, everPublished, procs, categories, tags, res,
          media, nextMediaId, objects

vars == <<users, now, mw, comments, nextCommentId, last, listing,
          articles, nextArticleId, everPublished, procs, categories, tags, res,
          media, nextMediaId, objects>>

\* the media table, its id sequence and the keys held by the object store;
\* only the media service writes them, so they are part of both frames below
mediaVars == <<media, nextMediaId, objects>>

\* the tables and responses of the article, category and tag services
contentVars == <<articles, nextArticleId, everPublished, procs, categories, tags, res,
                 mediaVars>>
\* the tables and responses of the middleware and comment specifications
coreVars == <<users, mw, comments, nextCommentId, last, listing, mediaVars>>

(***************************************************************************)
(* Bounds                                                                  *)
(***************************************************************************)
MaxTime == 2
MaxComments == 2
MaxTreeComments == 4

(***************************************************************************)
(* Values                                                                  *)
(***************************************************************************)
Roles == {"ADMIN", "EDITOR", "AUTHOR"}
UserIds == {1, 2, 3}
\* undefined / null for numeric and for string fields
Null == 0
Absent == "<undefined>"
\* req.user before any authenticator has run
NoUser == [id |-> Null, role |-> Absent, isActive |-> FALSE]
\* the argument of next(): NoError is next() without an argument
\* An error has its class (instanceof), its name and message, and, for an
\* ApiError, its statusCode, for a Prisma known request error its code and
\* meta.target.
NoError ==
    [type |-> "none", name |-> Absent, message |-> Absent, statusCode |-> 0,
     code |-> Absent, target |-> Absent]
ApiError(status) ==
    [type |-> "ApiError", name |-> "Error", message |-> "ApiError message",
     statusCode |-> status, code |-> Absent, target |-> Absent]
\* prisma rejects: a known request error carries a code, a connection failure none
PrismaKnownError(c) ==
    [type |-> "PrismaClientKnownRequestError", name |-> "PrismaClientKnownRequestError",
     message |-> "prisma message", statusCode |-> 0, code |-> c, target |-> Absent]
PrismaInitError ==
    [type |-> "PrismaClientInitializationError",
     name |-> "PrismaClientInitializationError",
     message |-> "prisma message", statusCode |-> 0, code |-> Absent, target |-> Absent]

(***************************************************************************)
(* Token codec (config/jwt.ts)                                             *)
(***************************************************************************)
JWT_EXPIRES_IN == 1

\* tokens a client can present: access tokens issued at some time 0..MaxTime,
\* a refresh token (signed with the other secret) and a forged one
Tokens ==
    [userId : UserIds, sig : {"access"}, exp : 1..(MaxTime + 1)]
    \cup [userId : {1}, sig : {"refresh", "forged"}, exp : {MaxTime + 1}]

generateToken(userId, t) == [userId |-> userId, sig |-> "access", exp |-> t + JWT_EXPIRES_IN]

\* jwt.verify(token, JWT_SECRET): the signature is checked first, then the expiry
verifyToken(token, t) ==
    IF token.sig # "access" THEN [ok |-> FALSE, name |-> "JsonWebTokenError", userId |-> Null]
    ELSE IF token.exp <= t THEN [ok |-> FALSE, name |-> "TokenExpiredError", userId |-> Null]
    ELSE [ok |-> TRUE, name |-> Absent, userId |-> token.userId]

(***************************************************************************)
(* Requests: the Authorization header                                      *)
(***************************************************************************)
NoToken == [userId |-> Null, sig |-> Absent, exp |-> 0]
NoHeader == [scheme |-> Absent, token |-> NoToken]
\* 'Bearer ' is matched case-sensitively by startsWith
Headers ==
    {NoHeader}
    \cup [scheme : {"Basic", "bearer"}, token : {NoToken}]
    \cup [scheme : {"Bearer"}, token : Tokens]

startsWithBearer(header) == header.scheme = "Bearer"

\* prisma.user.findUnique({where: {id}, select: {... no password ...}})
userFindUnique(us, id) ==
    IF id \in UserIds /\ us[id].exists
    THEN [id |-> id, role |-> us[id].role, isActive |-> us[id].isActive]
    ELSE NoUser

(***************************************************************************)
(* middleware/auth.ts                                                      *)
(* Each middleware returns the sequence of its calls of next (the argument *)
(* of each call) and the value of req.user it leaves behind.               *)
(***************************************************************************)
\* mutant: the isActive check is dropped
authenticate_noActiveCheck(header, us, t, dbUp) ==
    IF ~startsWithBearer(header)
    THEN [calls |-> <<ApiError(401)>>, user |-> NoUser]
    ELSE LET decoded == verifyToken(header.token, t) IN
         IF ~decoded.ok
         THEN [calls |-> <<ApiError(401)>>, user |-> NoUser]
         ELSE IF ~dbUp
         THEN [calls |-> <<PrismaInitError>>, user |-> NoUser]
         ELSE LET user == userFindUnique(us, decoded.userId) IN
              IF user = NoUser
              THEN [calls |-> <<ApiError(401)>>, user |-> NoUser]
              ELSE [calls |-> <<NoError>>, user |-> user]

\* mutant: req.user takes its role from the claim in the token
authenticate_tokenRole(header, us, t, dbUp) ==
    IF ~startsWithBearer(header)
    THEN [calls |-> <<ApiError(401)>>, user |-> NoUser]
    ELSE LET decoded == verifyToken(header.token, t) IN
         IF ~decoded.ok
         THEN [calls |-> <<ApiError(401)>>, user |-> NoUser]
         ELSE IF ~dbUp
         THEN [calls |-> <<PrismaInitError>>, user |-> NoUser]
         ELSE LET user == userFindUnique(us, decoded.userId) IN
              IF user = NoUser
              THEN [calls |-> <<ApiError(401)>>, user |-> NoUser]
              ELSE IF ~user.isActive
              THEN [calls |-> <<ApiError(403)>>, user |-> NoUser]
              ELSE [calls |-> <<NoError>>,
                    user |-> [user EXCEPT !.role = header.token.role]]

authenticate(header, us, t, dbUp) ==
    IF ~startsWithBearer(header)
    THEN [calls |-> <<ApiError(401)>>, user |-> NoUser]
    ELSE LET decoded == verifyToken(header.token, t) IN
         IF ~decoded.ok
         THEN [calls |-> <<ApiError(401)>>, user |-> NoUser]
         ELSE IF ~dbUp
         THEN [calls |-> <<PrismaInitError>>, user |-> NoUser]
         ELSE LET user == userFindUnique(us, decoded.userId) IN
              IF user = NoUser
              THEN [calls |-> <<ApiError(401)>>, user |-> NoUser]
              ELSE IF ~user.isActive
              THEN [calls |-> <<ApiError(403)>>, user |-> NoUser]
              ELSE [calls |-> <<NoError>>, user |-> user]

\* mutant: the inner catch is missing, a failure reaches the outer next(error)
optionalAuthenticate_noInnerCatch(header, us, t, dbUp) ==
    IF startsWithBearer(header)
    THEN LET decoded == verifyToken(header.token, t) IN
         IF ~decoded.ok
         THEN [calls |-> <<[type |-> decoded.name, statusCode |-> 0, code |-> Absent]>>,
               user |-> NoUser]
         ELSE IF ~dbUp
         THEN [calls |-> <<PrismaInitError>>, user |-> NoUser]
         ELSE LET user == userFindUnique(us, decoded.userId) IN
              IF user # NoUser /\ user.isActive
              THEN [calls |-> <<NoError>>, user |-> user]
              ELSE [calls |-> <<NoError>>, user |-> NoUser]
    ELSE [calls |-> <<NoError>>, user |-> NoUser]

optionalAuthenticate(header, us, t, dbUp) ==
    IF startsWithBearer(header)
    THEN LET decoded == verifyToken(header.token, t) IN
         IF ~decoded.ok \/ ~dbUp
         THEN [calls |-> <<NoError>>, user |-> NoUser]
         ELSE LET user == userFindUnique(us, decoded.userId) IN
              IF user # NoUser /\ user.isActive
              THEN [calls |-> <<NoError>>, user |-> user]
              ELSE [calls |-> <<NoError>>, user |-> NoUser]
    ELSE [calls |-> <<NoError>>, user |-> NoUser]

(***************************************************************************)
(* middleware/roleCheck.ts                                                 *)
(***************************************************************************)
\* mutant: the gate tests the role only, a missing user is a 403
requireRole_noUserCheck(allowedRoles, reqUser) ==
    IF reqUser.role \notin allowedRoles
    THEN <<ApiError(403)>>
    ELSE <<NoError>>

requireRole(allowedRoles, reqUser) ==
    IF reqUser = NoUser
    THEN <<ApiError(401)>>
    ELSE IF reqUser.role \notin allowedRoles
    THEN <<ApiError(403)>>
    ELSE <<NoError>>

AdminRoles == {"ADMIN"}
EditorRoles == {"ADMIN", "EDITOR"}
AuthorRoles == {"ADMIN", "EDITOR", "AUTHOR"}
requireAdmin(reqUser) == requireRole(AdminRoles, reqUser)
\* mutant: the moderation gate lets every signed-in role through
requireEditor_anyRole(reqUser) == requireRole(AuthorRoles, reqUser)
requireEditor(reqUser) == requireRole(EditorRoles, reqUser)
requireAuthor(reqUser) == requireRole(AuthorRoles, reqUser)

(***************************************************************************)
(* middleware/errorHandler.ts.  errorHandler(err) is the statusCode and    *)
(* message the handler settles on; errorResponse is the response it sends. *)
(***************************************************************************)
\* mutant: a unique-constraint violation is answered like any other code
errorHandler_noConflict(err) ==
    IF err.type = "ApiError"
    THEN [statusCode |-> err.statusCode, message |-> err.message]
    ELSE IF err.type = "PrismaClientKnownRequestError"
    THEN CASE err.code = "P2025" -> [statusCode |-> 404, message |-> "Record not found"]
           [] err.code = "P2003" ->
                  [statusCode |-> 400, message |-> "Invalid reference to related record"]
           [] err.code = "P2014" ->
                  [statusCode |-> 400, message |-> "Related record is required"]
           [] OTHER -> [statusCode |-> 400, message |-> "Database error occurred"]
    ELSE IF err.type = "PrismaClientValidationError"
    THEN [statusCode |-> 400, message |-> "Invalid data provided"]
    ELSE IF err.name = "JsonWebTokenError"
    THEN [statusCode |-> 401, message |-> "Invalid token"]
    ELSE IF err.name = "TokenExpiredError"
    THEN [statusCode |-> 401, message |-> "Token expired"]
    ELSE IF err.name = "MulterError"
    THEN [statusCode |-> 400, message |-> "File upload error: " \o err.message]
    ELSE [statusCode |-> 500, message |-> "Internal Server Error"]

errorHandler(err) ==
    IF err.type = "ApiError"
    THEN [statusCode |-> err.statusCode, message |-> err.message]
    ELSE IF err.type = "PrismaClientKnownRequestError"
    THEN CASE err.code = "P2002" ->
                  [statusCode |-> 409,
                   message |-> "Duplicate entry: "
                               \o (IF err.target # Absent THEN err.target ELSE "field")
                               \o " already exists"]
           [] err.code = "P2025" -> [statusCode |-> 404, message |-> "Record not found"]
           [] err.code = "P2003" ->
                  [statusCode |-> 400, message |-> "Invalid reference to related record"]
           [] err.code = "P2014" ->
                  [statusCode |-> 400, message |-> "Related record is required"]
           [] OTHER -> [statusCode |-> 400, message |-> "Database error occurred"]
    ELSE IF err.type = "PrismaClientValidationError"
    THEN [statusCode |-> 400, message |-> "Invalid data provided"]
    ELSE IF err.name = "JsonWebTokenError"
    THEN [statusCode |-> 401, message |-> "Invalid token"]
    ELSE IF err.name = "TokenExpiredError"
    THEN [statusCode |-> 401, message |-> "Token expired"]
    ELSE IF err.name = "MulterError"
    THEN [statusCode |-> 400, message |-> "File upload error: " \o err.message]
    ELSE [statusCode |-> 500, message |-> "Internal Server Error"]

\* res.status(statusCode).json({...}): in development the body also carries
\* the stack and, unless the error is an ApiError, its message as details
errorResponse(err, env) ==
    LET h == errorHandler(err)
        base == [success |-> FALSE, error |-> h.message]
    IN  [status |-> h.statusCode,
         body |-> IF env # "development" THEN base
                  ELSE IF err.type = "ApiError" THEN base @@ [stack |-> "stack"]
                  ELSE base @@ [stack |-> "stack", details |-> err.message]]

(***************************************************************************)
(* State                                                                   *)
(***************************************************************************)
InitUsers ==
    [u \in UserIds |->
        [exists |-> TRUE,
         role |-> IF u = 1 THEN "ADMIN" ELSE IF u = 2 THEN "EDITOR" ELSE "AUTHOR",
         isActive |-> TRUE]]

NoMw == [name |-> Absent, header |-> NoHeader, dbUp |-> TRUE, calls |-> <<>>,
         user |-> NoUser, gateName |-> Absent, gate |-> <<>>]
NoLast == [op |-> Absent, header |-> NoHeader, id |-> Null, code |-> 0, was |-> Absent]

NoRes == [op |-> Absent]

InitCore ==
    /\ users = InitUsers
    /\ mw = NoMw
    /\ comments = <<>>
    /\ nextCommentId = 1
    /\ last = NoLast
    /\ listing = <<>>
    /\ media = <<>>
    /\ nextMediaId = 1
    /\ objects = {}

InitContent ==
    /\ articles = <<>>
    /\ nextArticleId = 1
    /\ everPublished = {}
    /\ procs = <<>>
    /\ categories = <<>>
    /\ tags = {}
    /\ res = NoRes

InitCommon ==
    /\ InitCore
    /\ now = 0
    /\ InitContent

(***************************************************************************)
(* SpecAuth: the middleware applied to one request                         *)
(***************************************************************************)
Authenticate(header, dbUp) ==
    /\ LET r == authenticate(header, users, now, dbUp) IN
       mw' = [name |-> "authenticate", header |-> header, dbUp |-> dbUp,
              calls |-> r.calls, user |-> r.user, gateName |-> Absent, gate |-> <<>>]
    /\ UNCHANGED <<users, now, comments, nextCommentId, last, listing>>
    /\ UNCHANGED contentVars

OptionalAuthenticate(header, dbUp) ==
    /\ LET r == optionalAuthenticate(header, users, now, dbUp) IN
       mw' = [name |-> "optionalAuthenticate", header |-> header, dbUp |-> dbUp,
              calls |-> r.calls, user |-> r.user, gateName |-> Absent, gate |-> <<>>]
    /\ UNCHANGED <<users, now, comments, nextCommentId, last, listing>>
    /\ UNCHANGED contentVars

\* a route  authenticate | optionalAuthenticate, requireAdmin | requireEditor |
\* requireAuthor: the gate runs when the authenticator called next() with no error
GateNames == {"requireAdmin", "requireEditor", "requireAuthor"}

RoleGate(header, gateName) ==
    /\ \E pre \in {"authenticate", "optionalAuthenticate"} :
         LET r == IF pre = "authenticate"
                  THEN authenticate(header, users, now, TRUE)
                  ELSE optionalAuthenticate(header, users, now, TRUE) IN
         /\ r.calls = <<NoError>>
         /\ mw' = [name |-> "requireRole", header |-> header, dbUp |-> TRUE,
                   calls |-> r.calls, user |-> r.user, gateName |-> gateName,
                   gate |-> CASE gateName = "requireAdmin" -> requireAdmin(r.user)
                              [] gateName = "requireEditor" -> requireEditor(r.user)
                              [] OTHER -> requireAuthor(r.user)]
    /\ UNCHANGED <<users, now, comments, nextCommentId, last, listing>>
    /\ UNCHANGED contentVars

\* services/userService.ts: prisma.user.update / delete reject on a missing row
deactivateUser(us, id) == IF us[id].exists THEN [us EXCEPT ![id].isActive = FALSE] ELSE us
activateUser(us, id) == IF us[id].exists THEN [us EXCEPT ![id].isActive = TRUE] ELSE us
deleteUser(us, id) == [us EXCEPT ![id].exists = FALSE]

DeactivateUser(id) ==
    /\ users' = deactivateUser(users, id)
    /\ mw' = NoMw
    /\ UNCHANGED <<now, comments, nextCommentId, last, listing>>
    /\ UNCHANGED contentVars

ActivateUser(id) ==
    /\ users' = activateUser(users, id)
    /\ mw' = NoMw
    /\ UNCHANGED <<now, comments, nextCommentId, last, listing>>
    /\ UNCHANGED contentVars

DeleteUser(id) ==
    /\ users' = deleteUser(users, id)
    /\ mw' = NoMw
    /\ UNCHANGED <<now, comments, nextCommentId, last, listing>>
    /\ UNCHANGED contentVars

Tick ==
    /\ now < MaxTime
    /\ now' = now + 1
    /\ mw' = NoMw
    /\ UNCHANGED <<users, comments, nextCommentId, last, listing>>
    /\ UNCHANGED contentVars

InitAuth == InitCommon

NextAuth ==
    \/ \E h \in Headers, d \in BOOLEAN : Authenticate(h, d)
    \/ \E h \in Headers, d \in BOOLEAN : OptionalAuthenticate(h, d)
    \/ \E h \in Headers, g \in GateNames : RoleGate(h, g)
    \/ \E u \in UserIds : DeactivateUser(u)
    \/ \E u \in UserIds : ActivateUser(u)
    \/ \E u \in UserIds : DeleteUser(u)
    \/ Tick

SpecAuth == InitAuth /\ [][NextAuth]_vars

(***************************************************************************)
(* services/commentService.ts                                              *)
(* comments is the comment table: a function from the ids of the stored    *)
(* rows to the rows; nextCommentId is the autoincrement counter.  Every    *)
(* method returns the table it leaves behind and the error it throws.      *)
(***************************************************************************)
ArticleIds == {1, 2}
CommentStatus == {"PENDING", "APPROVED", "REJECTED", "SPAM"}

replyCount(cs, id) == Cardinality({c \in DOMAIN cs : cs[c].parentId = id})

\* mutant: the comment of a signed-in user is published at once
createComment_memberApproved(cs, nid, arts, data, userId) ==
    IF data.articleId \notin arts
    THEN [cs |-> cs, nid |-> nid, err |-> ApiError(404), id |-> Null]
    ELSE IF data.parentId # Null /\ data.parentId \notin DOMAIN cs
    THEN [cs |-> cs, nid |-> nid, err |-> ApiError(404), id |-> Null]
    ELSE IF data.parentId # Null /\ cs[data.parentId].articleId # data.articleId
    THEN [cs |-> cs, nid |-> nid, err |-> ApiError(400), id |-> Null]
    ELSE IF userId = Null /\ (data.authorName = Absent \/ data.authorEmail = Absent)
    THEN [cs |-> cs, nid |-> nid, err |-> ApiError(400), id |-> Null]
    ELSE [cs |-> cs @@ (nid :> [articleId |-> data.articleId,
                                userId |-> userId,
                                parentId |-> data.parentId,
                                content |-> data.content,
                                authorName |-> data.authorName,
                                authorEmail |-> data.authorEmail,
                                status |-> IF userId # Null
                                           THEN "APPROVED" ELSE "PENDING"]),
          nid |-> nid + 1, err |-> NoError, id |-> nid]

\* arts: the ids of the stored articles (prisma.article.findUnique)
createComment(cs, nid, arts, data, userId) ==
    IF data.articleId \notin arts
    THEN [cs |-> cs, nid |-> nid, err |-> ApiError(404), id |-> Null]
    ELSE IF data.parentId # Null /\ data.parentId \notin DOMAIN cs
    THEN [cs |-> cs, nid |-> nid, err |-> ApiError(404), id |-> Null]
    ELSE IF data.parentId # Null /\ cs[data.parentId].articleId # data.articleId
    THEN [cs |-> cs, nid |-> nid, err |-> ApiError(400), id |-> Null]
    ELSE IF userId = Null /\ (data.authorName = Absent \/ data.authorEmail = Absent)
    THEN [cs |-> cs, nid |-> nid, err |-> ApiError(400), id |-> Null]
    ELSE [cs |-> cs @@ (nid :> [articleId |-> data.articleId,
                                userId |-> userId,
                                parentId |-> data.parentId,
                                content |-> data.content,
                                authorName |-> data.authorName,
                                authorEmail |-> data.authorEmail,
                                status |-> "PENDING"]),
          nid |-> nid + 1, err |-> NoError, id |-> nid]

\* mutant: an edited comment goes back to moderation
updateComment_remoderate(cs, id, content, userId, userRole) ==
    IF id \notin DOMAIN cs
    THEN [cs |-> cs, err |-> ApiError(404)]
    ELSE IF cs[id].userId # userId /\ userRole # "ADMIN"
    THEN [cs |-> cs, err |-> ApiError(403)]
    ELSE [cs |-> [cs EXCEPT ![id].content = content, ![id].status = "PENDING"],
          err |-> NoError]

updateComment(cs, id, content, userId, userRole) ==
    IF id \notin DOMAIN cs
    THEN [cs |-> cs, err |-> ApiError(404)]
    ELSE IF cs[id].userId # userId /\ userRole # "ADMIN"
    THEN [cs |-> cs, err |-> ApiError(403)]
    ELSE [cs |-> [cs EXCEPT ![id].content = content], err |-> NoError]

\* prisma.comment.update({where: {id}, data: {status}}) rejects with P2025
\* when there is no such row
setStatus(cs, id, status) ==
    IF id \notin DOMAIN cs
    THEN [cs |-> cs, err |-> PrismaKnownError("P2025")]
    ELSE [cs |-> [cs EXCEPT ![id].status = status], err |-> NoError]

approveComment(cs, id) == setStatus(cs, id, "APPROVED")
\* mutant: only a PENDING comment can be rejected, otherwise nothing is written
rejectComment_pendingOnly(cs, id) ==
    IF id \in DOMAIN cs /\ cs[id].status # "PENDING"
    THEN [cs |-> cs, err |-> NoError]
    ELSE setStatus(cs, id, "REJECTED")
rejectComment(cs, id) == setStatus(cs, id, "REJECTED")
markAsSpam(cs, id) == setStatus(cs, id, "SPAM")

\* mutant: the reply check runs before the permission check
deleteComment_replyCheckFirst(cs, id, userId, userRole) ==
    IF id \notin DOMAIN cs
    THEN [cs |-> cs, err |-> ApiError(404)]
    ELSE IF replyCount(cs, id) > 0
    THEN [cs |-> cs, err |-> ApiError(400)]
    ELSE IF cs[id].userId # userId /\ userRole # "ADMIN"
    THEN [cs |-> cs, err |-> ApiError(403)]
    ELSE [cs |-> [c \in DOMAIN cs \ {id} |-> cs[c]], err |-> NoError]

deleteComment(cs, id, userId, userRole) ==
    IF id \notin DOMAIN cs
    THEN [cs |-> cs, err |-> ApiError(404)]
    ELSE IF cs[id].userId # userId /\ userRole # "ADMIN"
    THEN [cs |-> cs, err |-> ApiError(403)]
    ELSE IF replyCount(cs, id) > 0
    THEN [cs |-> cs, err |-> ApiError(400)]
    ELSE [cs |-> [c \in DOMAIN cs \ {id} |-> cs[c]], err |-> NoError]

\* ids in creation order (orderBy createdAt: ids are handed out in that order)
RECURSIVE SeqAsc(_)
SeqAsc(S) ==
    IF S = {} THEN <<>>
    ELSE LET m == CHOOSE x \in S : \A y \in S : x <= y IN <<m>> \o SeqAsc(S \ {m})

RECURSIVE SeqDesc(_)
SeqDesc(S) ==
    IF S = {} THEN <<>>
    ELSE LET m == CHOOSE x \in S : \A y \in S : x >= y IN <<m>> \o SeqDesc(S \ {m})

approvedReplies(cs, id) ==
    {c \in DOMAIN cs : cs[c].parentId = id /\ cs[c].status = "APPROVED"}

\* mutant: the status filter of the innermost include is missing
getArticleComments_innerUnfiltered(cs, articleId) ==
    LET top == SeqDesc({c \in DOMAIN cs : /\ cs[c].articleId = articleId
                                          /\ cs[c].status = "APPROVED"
                                          /\ cs[c].parentId = Null})
        third(id) == LET r == SeqAsc({c \in DOMAIN cs : cs[c].parentId = id})
                     IN [i \in 1..Len(r) |-> [id |-> r[i]]]
        second(id) == LET r == SeqAsc(approvedReplies(cs, id))
                      IN [i \in 1..Len(r) |-> [id |-> r[i], replies |-> third(r[i])]]
    IN [i \in 1..Len(top) |-> [id |-> top[i], replies |-> second(top[i])]]

\* findMany with two nested includes of replies: three levels in all
getArticleComments(cs, articleId) ==
    LET top == SeqDesc({c \in DOMAIN cs : /\ cs[c].articleId = articleId
                                          /\ cs[c].status = "APPROVED"
                                          /\ cs[c].parentId = Null})
        third(id) == LET r == SeqAsc(approvedReplies(cs, id))
                     IN [i \in 1..Len(r) |-> [id |-> r[i]]]
        second(id) == LET r == SeqAsc(approvedReplies(cs, id))
                      IN [i \in 1..Len(r) |-> [id |-> r[i], replies |-> third(r[i])]]
    IN [i \in 1..Len(top) |-> [id |-> top[i], replies |-> second(top[i])]]

(***************************************************************************)
(* schemas/comment.schema.ts and middleware/validate.ts                    *)
(***************************************************************************)
ValidEmails == {"g@x.com"}

\* a schema answers safeParse with success and the parsed data, or with the
\* issues it found (each the path of the key and the message)
Issue(key, message) == [path |-> <<key>>, message |-> message]
IssueIf(cond, key, message) == IF cond THEN <<Issue(key, message)>> ELSE <<>>

\* createCommentSchema: z.object strips the keys it does not name
createCommentSchema(body) ==
    LET issues ==
            IssueIf(body.content = "", "content", "Content is required")
            \o IssueIf(body.authorName = "", "authorName", "Author name cannot be empty")
            \o IssueIf(body.authorEmail # Absent /\ body.authorEmail \notin ValidEmails,
                       "authorEmail", "Invalid email")
    IN  IF issues # <<>>
        THEN [success |-> FALSE, data |-> body, issues |-> issues]
        ELSE [success |-> TRUE,
              data |-> [articleId |-> body.articleId, content |-> body.content,
                        parentId |-> body.parentId, authorName |-> body.authorName,
                        authorEmail |-> body.authorEmail],
              issues |-> <<>>]

updateCommentSchema(body) ==
    IF body.content = ""
    THEN [success |-> FALSE, data |-> body,
          issues |-> <<Issue("content", "Content is required")>>]
    ELSE [success |-> TRUE, data |-> [content |-> body.content], issues |-> <<>>]

\* commentParamsSchema: id is a string of digits, transformed to a number
DigitStrings == {ToString(i) : i \in 0..9}
Number(str) == CHOOSE i \in 0..9 : ToString(i) = str

commentParamsSchema(params) ==
    IF params.id \notin DigitStrings
    THEN [success |-> FALSE, data |-> [id |-> Null],
          issues |-> <<Issue("id", "Invalid comment ID")>>]
    ELSE [success |-> TRUE, data |-> [id |-> Number(params.id)], issues |-> <<>>]

\* schema.safeParse threw instead of answering
Threw == [threw |-> TRUE]

\* issue.path.join('.')
RECURSIVE joinPath(_)
joinPath(path) ==
    IF path = <<>> THEN ""
    ELSE IF Len(path) = 1 THEN path[1]
    ELSE path[1] \o "." \o joinPath(Tail(path))

\* mutant: after the 400 the request is handed on all the same
validate_nextAfterReject(parsed) ==
    IF parsed = Threw
    THEN [calls |-> <<>>, status |-> 500, data |-> Absent,
          body |-> [status |-> "error",
                    errors |-> <<[field |-> "unknown",
                                  message |-> "An unexpected error occurred during validation"]>>]]
    ELSE IF ~parsed.success
    THEN [calls |-> <<NoError>>, status |-> 400, data |-> parsed.data,
          body |-> [status |-> "error",
                    errors |-> [i \in 1..Len(parsed.issues) |->
                                   [field |-> joinPath(parsed.issues[i].path),
                                    message |-> parsed.issues[i].message]]]]
    ELSE [calls |-> <<NoError>>, status |-> 0, data |-> parsed.data, body |-> <<>>]

\* validate(schema, source), given the answer of schema.safeParse(req[source]):
\* on failure it answers 400 itself and does not call next; on success it
\* replaces req[source] by the parsed data and calls next(); when safeParse
\* throws it answers 500.  status 0: no response sent; data: req[source] for
\* the handlers that follow.
validate(parsed) ==
    IF parsed = Threw
    THEN [calls |-> <<>>, status |-> 500, data |-> Absent,
          body |-> [status |-> "error",
                    errors |-> <<[field |-> "unknown",
                                  message |-> "An unexpected error occurred during validation"]>>]]
    ELSE IF ~parsed.success
    THEN [calls |-> <<>>, status |-> 400, data |-> parsed.data,
          body |-> [status |-> "error",
                    errors |-> [i \in 1..Len(parsed.issues) |->
                                   [field |-> joinPath(parsed.issues[i].path),
                                    message |-> parsed.issues[i].message]]]]
    ELSE [calls |-> <<NoError>>, status |-> 0, data |-> parsed.data, body |-> <<>>]

(***************************************************************************)
(* Spec: the comment routes (routes/comment.routes.ts) with their          *)
(* controllers (controllers/commentController.ts).  One action is one      *)
(* request run through its whole middleware chain; last records the        *)
(* request and the status of its response.                                 *)
(***************************************************************************)
\* the answer of a chain: the table it leaves, the response status, the id,
\* and, for a moderation that went through, the status the comment had before
AnswerWas(cs, nid, code, id, was) ==
    [cs |-> cs, nid |-> nid, code |-> code, id |-> id, was |-> was]
Answer(cs, nid, code, id) == AnswerWas(cs, nid, code, id, Absent)

\* POST /  optionalAuthenticate, validate(createCommentSchema), createComment
postComment(header, body) ==
    LET o == optionalAuthenticate(header, users, now, TRUE)
        v == validate(createCommentSchema(body))
    IN IF v.calls = <<>> THEN Answer(comments, nextCommentId, v.status, Null)
       ELSE LET r == createComment(comments, nextCommentId, ArticleIds, v.data, o.user.id)
            IN IF r.err # NoError
               THEN Answer(comments, nextCommentId, errorHandler(r.err).statusCode, Null)
               ELSE Answer(r.cs, r.nid, 201, r.id)

\* PUT /:id  authenticate, validate(params), validate(body), updateComment
putComment(header, params, body) ==
    LET a == authenticate(header, users, now, TRUE)
        vp == validate(commentParamsSchema(params))
        vb == validate(updateCommentSchema(body))
    IN IF a.calls # <<NoError>>
       THEN Answer(comments, nextCommentId, errorHandler(a.calls[1]).statusCode, Null)
       ELSE IF vp.calls = <<>> THEN Answer(comments, nextCommentId, vp.status, Null)
       ELSE IF vb.calls = <<>> THEN Answer(comments, nextCommentId, vb.status, vp.data.id)
       ELSE IF a.user = NoUser
       THEN Answer(comments, nextCommentId, errorHandler(ApiError(401)).statusCode, vp.data.id)
       ELSE LET r == updateComment(comments, vp.data.id, vb.data.content,
                                   a.user.id, a.user.role)
            IN IF r.err # NoError
               THEN Answer(comments, nextCommentId, errorHandler(r.err).statusCode, vp.data.id)
               ELSE Answer(r.cs, nextCommentId, 200, vp.data.id)

\* DELETE /:id  authenticate, validate(params), deleteComment
delComment(header, params) ==
    LET a == authenticate(header, users, now, TRUE)
        vp == validate(commentParamsSchema(params))
    IN IF a.calls # <<NoError>>
       THEN Answer(comments, nextCommentId, errorHandler(a.calls[1]).statusCode, Null)
       ELSE IF vp.calls = <<>> THEN Answer(comments, nextCommentId, vp.status, Null)
       ELSE IF a.user = NoUser
       THEN Answer(comments, nextCommentId, errorHandler(ApiError(401)).statusCode, vp.data.id)
       ELSE LET r == deleteComment(comments, vp.data.id, a.user.id, a.user.role)
            IN IF r.err # NoError
               THEN Answer(comments, nextCommentId, errorHandler(r.err).statusCode, vp.data.id)
               ELSE Answer(r.cs, nextCommentId, 200, vp.data.id)

\* PATCH /:id/approve | reject | spam
\* authenticate, requireEditor, validate(params), controller
ModerationOps == {"approveComment", "rejectComment", "markAsSpam"}

patchComment(op, header, params) ==
    LET a == authenticate(header, users, now, TRUE)
        g == requireEditor(a.user)
        vp == validate(commentParamsSchema(params))
    IN IF a.calls # <<NoError>>
       THEN Answer(comments, nextCommentId, errorHandler(a.calls[1]).statusCode, Null)
       ELSE IF g # <<NoError>>
       THEN Answer(comments, nextCommentId, errorHandler(g[1]).statusCode, Null)
       ELSE IF vp.calls = <<>> THEN Answer(comments, nextCommentId, vp.status, Null)
       ELSE LET r == CASE op = "approveComment" -> approveComment(comments, vp.data.id)
                       [] op = "rejectComment" -> rejectComment(comments, vp.data.id)
                       [] OTHER -> markAsSpam(comments, vp.data.id)
            IN IF r.err # NoError
               THEN Answer(comments, nextCommentId, errorHandler(r.err).statusCode, vp.data.id)
               ELSE AnswerWas(r.cs, nextCommentId, 200, vp.data.id,
                              comments[vp.data.id].status)

\* the requests a client sends
HttpHeaders ==
    {NoHeader}
    \cup [scheme : {"Bearer"}, token : [userId : UserIds, sig : {"access"}, exp : {MaxTime + 1}]]

ParamIds == [id : {ToString(i) : i \in 1..MaxComments} \cup {"abc"}]

\* bodies the service accepts, one of them with a key the schema does not name
CreateBodies ==
    [articleId : {1}, content : {"x"}, parentId : {Null} \cup (1..MaxComments),
     authorName : {"G"}, authorEmail : {"g@x.com"}, status : {Absent}]
    \cup [articleId : {1}, content : {"x"}, parentId : {Null},
          authorName : {"G"}, authorEmail : {"g@x.com"}, status : {"APPROVED"}]

\* bodies that are refused whoever sends them: unknown article, empty
\* content, malformed e-mail
BadBodies ==
    [articleId : {3}, content : {"x"}, parentId : {Null},
     authorName : {"G"}, authorEmail : {"g@x.com"}, status : {Absent}]
    \cup [articleId : {1}, content : {""}, parentId : {Null},
          authorName : {"G"}, authorEmail : {"g@x.com"}, status : {Absent}]
    \cup [articleId : {1}, content : {"x"}, parentId : {Null},
          authorName : {"G"}, authorEmail : {"not-an-email"}, status : {Absent}]

\* bodies without the full guest identity
AnonymousBodies ==
    [articleId : {1}, content : {"x"}, parentId : {Null},
     authorName : {Absent, "G"}, authorEmail : {Absent}, status : {Absent}]

UpdateBodies == [content : {"", "x"}]
EditBodies == [content : {"", "x", "y"}]

Respond(op, header, ans) ==
    /\ comments' = ans.cs
    /\ nextCommentId' = ans.nid
    /\ last' = [op |-> op, header |-> header, id |-> ans.id, code |-> ans.code,
                was |-> ans.was]
    /\ UNCHANGED <<users, now, mw, listing>>
    /\ UNCHANGED contentVars

CreateCommentReq(header, body) ==
    /\ nextCommentId <= MaxComments
    /\ Respond("createComment", header, postComment(header, body))

UpdateCommentReq(header, params, body) ==
    Respond("updateComment", header, putComment(header, params, body))

DeleteCommentReq(header, params) ==
    Respond("deleteComment", header, delComment(header, params))

ApproveCommentReq(header, params) ==
    Respond("approveComment", header, patchComment("approveComment", header, params))

RejectCommentReq(header, params) ==
    Respond("rejectComment", header, patchComment("rejectComment", header, params))

MarkAsSpamReq(header, params) ==
    Respond("markAsSpam", header, patchComment("markAsSpam", header, params))

Init == InitCommon

\* comments are written by guests; everybody moderates, edits and deletes
Next ==
    \/ \E b \in CreateBodies \cup BadBodies \cup AnonymousBodies : CreateCommentReq(NoHeader, b)
    \/ \E h \in HttpHeaders, p \in ParamIds, b \in UpdateBodies : UpdateCommentReq(h, p, b)
    \/ \E h \in HttpHeaders, p \in ParamIds : DeleteCommentReq(h, p)
    \/ \E h \in HttpHeaders, p \in ParamIds : ApproveCommentReq(h, p)
    \/ \E h \in HttpHeaders, p \in ParamIds : RejectCommentReq(h, p)
    \/ \E h \in HttpHeaders, p \in ParamIds : MarkAsSpamReq(h, p)

Spec == Init /\ [][Next]_vars

(***************************************************************************)
(* SpecOwners: comments written by every kind of requester, edited and     *)
(* deleted, never moderated                                                *)
(***************************************************************************)
InitOwners == InitCommon

NextOwners ==
    \/ \E h \in HttpHeaders, b \in CreateBodies \cup BadBodies : CreateCommentReq(h, b)
    \/ \E b \in AnonymousBodies : CreateCommentReq(NoHeader, b)
    \/ \E h \in HttpHeaders, p \in ParamIds, b \in EditBodies : UpdateCommentReq(h, p, b)
    \/ \E h \in HttpHeaders, p \in ParamIds : DeleteCommentReq(h, p)

SpecOwners == InitOwners /\ [][NextOwners]_vars

(***************************************************************************)
(* SpecListing: CommentService called directly; trees of replies and the   *)
(* public listing of an article.  listing is the answer of the last        *)
(* getArticleComments, last.id the article it was asked for.               *)
(***************************************************************************)
TreeBodies ==
    [articleId : ArticleIds, content : {"x"}, parentId : {Null} \cup (1..MaxTreeComments),
     authorName : {Absent}, authorEmail : {Absent}]

Called(op, id, code) == [op |-> op, header |-> NoHeader, id |-> id, code |-> code, was |-> Absent]

CreateComment(data, userId) ==
    /\ nextCommentId <= MaxTreeComments
    /\ LET r == createComment(comments, nextCommentId, ArticleIds, data, userId) IN
       /\ comments' = r.cs
       /\ nextCommentId' = r.nid
       /\ last' = Called("createComment", r.id, r.err.statusCode)
    /\ listing' = <<>>
    /\ UNCHANGED <<users, now, mw>>
    /\ UNCHANGED contentVars

ApproveComment(id) ==
    /\ LET r == approveComment(comments, id) IN
       /\ comments' = r.cs
       /\ last' = Called("approveComment", id, errorHandler(r.err).statusCode)
    /\ listing' = <<>>
    /\ UNCHANGED <<users, now, mw, nextCommentId>>
    /\ UNCHANGED contentVars

RejectComment(id) ==
    /\ LET r == rejectComment(comments, id) IN
       /\ comments' = r.cs
       /\ last' = Called("rejectComment", id, errorHandler(r.err).statusCode)
    /\ listing' = <<>>
    /\ UNCHANGED <<users, now, mw, nextCommentId>>
    /\ UNCHANGED contentVars

GetArticleComments(articleId) ==
    /\ listing' = getArticleComments(comments, articleId)
    /\ last' = Called("getArticleComments", articleId, 200)
    /\ UNCHANGED <<users, now, mw, comments, nextCommentId>>
    /\ UNCHANGED contentVars

InitListing == InitCommon

NextListing ==
    \/ \E d \in TreeBodies : CreateComment(d, 3)
    \/ \E c \in 1..MaxTreeComments : ApproveComment(c)
    \/ \E c \in 1..MaxTreeComments : RejectComment(c)
    \/ \E a \in ArticleIds : GetArticleComments(a)

SpecListing == InitListing /\ [][NextListing]_vars

(***************************************************************************)
(* Properties of the middleware, checked under SpecAuth                    *)
(***************************************************************************)
\* what the request recorded in mw carried, read against the current state
MwBearer == mw.header.scheme = "Bearer"
MwTokenOk == MwBearer /\ mw.header.token.sig = "access" /\ mw.header.token.exp > now
MwRowExists == MwTokenOk /\ users[mw.header.token.userId].exists
MwRowActive == MwRowExists /\ users[mw.header.token.userId].isActive
MwRow ==
    [id |-> mw.header.token.userId,
     role |-> users[mw.header.token.userId].role,
     isActive |-> users[mw.header.token.userId].isActive]

\* the five outcomes of the required authenticator, in order
AuthOutcome5 ==
    IF ~MwBearer THEN mw.calls = <<ApiError(401)>> /\ mw.user = NoUser
    ELSE IF ~MwTokenOk THEN mw.calls = <<ApiError(401)>> /\ mw.user = NoUser
    ELSE IF ~MwRowExists THEN mw.calls = <<ApiError(401)>> /\ mw.user = NoUser
    ELSE IF ~MwRowActive THEN mw.calls = <<ApiError(403)>> /\ mw.user = NoUser
    ELSE mw.calls = <<NoError>> /\ mw.user = MwRow

\* C1 as stated: every request to authenticate ends in one of the five
\* outcomes (401 no bearer header, 401 bad token, 401 no user row, 403
\* inactive, else req.user set and next() without an error).
C1_AuthenticateFiveOutcomes ==
    mw.name = "authenticate" => AuthOutcome5

\* C1 amended: the five outcomes hold whenever the user lookup completes; when
\* the lookup is reached and rejects, next is called once with that error
\* (neither a 401 nor a 403) and req.user stays unset.  In every case next is
\* called exactly once and req.user is set only together with next().
C1_AuthenticateOutcomes ==
    mw.name = "authenticate" =>
        /\ Len(mw.calls) = 1
        /\ (mw.user # NoUser => mw.calls = <<NoError>>)
        /\ IF MwTokenOk /\ ~mw.dbUp
           THEN mw.calls = <<PrismaInitError>> /\ mw.user = NoUser
           ELSE AuthOutcome5

\* C1 witness: a verified token of a deactivated user was rejected with 403
C1_Witness ==
    /\ mw.name = "authenticate"
    /\ MwRowExists /\ ~MwRowActive /\ mw.dbUp
    /\ mw.calls = <<ApiError(403)>>

\* C2: optionalAuthenticate calls next() exactly once and never with an
\* argument; req.user is set iff the header is a Bearer token that verifies
\* and the lookup returns an existing, active user (and then it is that user).
C2_OptionalNeverFails ==
    mw.name = "optionalAuthenticate" =>
        /\ mw.calls = <<NoError>>
        /\ (mw.user # NoUser) <=> (MwRowActive /\ mw.dbUp)
        /\ (mw.user # NoUser => mw.user = MwRow)

\* C2 witness: a failing lookup behind a valid token was swallowed
C2_Witness ==
    /\ mw.name = "optionalAuthenticate"
    /\ MwRowActive /\ ~mw.dbUp
    /\ mw.calls = <<NoError>> /\ mw.user = NoUser

\* C3: requireRole answers 401 without a user, 403 for a role outside the
\* allowed set and next() otherwise; the admin gate rejects an AUTHOR with 403
\* and passes an ADMIN, requireEditor passes exactly ADMIN and EDITOR, and
\* requireAuthor passes ADMIN, EDITOR and AUTHOR.
MwGateRoles ==
    CASE mw.gateName = "requireAdmin" -> {"ADMIN"}
      [] mw.gateName = "requireEditor" -> {"ADMIN", "EDITOR"}
      [] OTHER -> {"ADMIN", "EDITOR", "AUTHOR"}

C3_RoleGate ==
    mw.name = "requireRole" =>
        /\ Len(mw.gate) = 1
        /\ (mw.user = NoUser => mw.gate = <<ApiError(401)>>)
        /\ (mw.user # NoUser /\ mw.user.role \notin MwGateRoles => mw.gate = <<ApiError(403)>>)
        /\ (mw.user # NoUser /\ mw.user.role \in MwGateRoles => mw.gate = <<NoError>>)

\* C3 witness: an authenticated AUTHOR was rejected by the admin-only gate
C3_Witness ==
    /\ mw.name = "requireRole"
    /\ mw.gateName = "requireAdmin"
    /\ mw.user # NoUser /\ mw.user.role = "AUTHOR"
    /\ mw.gate = <<ApiError(403)>>

(***************************************************************************)
(* Properties of the comment routes, checked under Spec and SpecOwners     *)
(***************************************************************************)
\* who sent the request recorded in last: the role of the user of its token
\* (the tokens of HttpHeaders verify, and their users are active)
LastRole ==
    IF last.header.scheme # "Bearer" THEN "anonymous"
    ELSE users[last.header.token.userId].role
LastUserId == last.header.token.userId

TerminalStatuses == {"APPROVED", "REJECTED", "SPAM"}
Kept == DOMAIN comments \cap DOMAIN comments'
Created == DOMAIN comments' \ DOMAIN comments

\* C4: a comment's status is changed only by an approve / reject / spam
\* request of an ADMIN or EDITOR; such a request of an AUTHOR is answered 403
\* and of an anonymous caller 401, and both leave every comment as it was.
C4_OnlyEditorsModerate ==
    [][/\ \A c \in Kept :
            comments'[c].status # comments[c].status =>
                /\ last'.op \in ModerationOps
                /\ LastRole' \in {"ADMIN", "EDITOR"}
                /\ last'.id = c /\ last'.code = 200
       /\ (last'.op \in ModerationOps /\ LastRole' = "AUTHOR" =>
                last'.code = 403 /\ comments' = comments)
       /\ (last'.op \in ModerationOps /\ LastRole' = "anonymous" =>
                last'.code = 401 /\ comments' = comments)]_vars

\* C4 witness: an AUTHOR asked to moderate while a comment was PENDING, got 403
C4_Witness ==
    /\ last.op \in ModerationOps
    /\ LastRole = "AUTHOR"
    /\ last.code = 403
    /\ \E c \in DOMAIN comments : comments[c].status = "PENDING"

\* C5: every comment enters the table with status PENDING, whoever sends the
\* request and whatever its body holds, and only createComment adds a comment.
C5_CreatedPending ==
    [][\A c \in Created :
            /\ comments'[c].status = "PENDING"
            /\ last'.op = "createComment" /\ last'.code = 201 /\ last'.id = c]_vars

\* C5 witness: the ADMIN has just created a comment, and it is PENDING
C5_Witness ==
    /\ last.op = "createComment" /\ last.code = 201
    /\ LastRole = "ADMIN"
    /\ last.id \in DOMAIN comments
    /\ comments[last.id].userId = 1
    /\ comments[last.id].status = "PENDING"

\* C8 as stated: once APPROVED, REJECTED or SPAM, the status of a comment is
\* not changed by any later request.
C8_TerminalStatuses ==
    [][\A c \in Kept :
            comments[c].status \in TerminalStatuses =>
                comments'[c].status = comments[c].status]_vars

ModerationTarget(op) ==
    CASE op = "approveComment" -> "APPROVED"
      [] op = "rejectComment" -> "REJECTED"
      [] OTHER -> "SPAM"

\* C8 amended: a moderation request that goes through sets the status its
\* action names whatever the status was (APPROVED, REJECTED and SPAM are
\* freely exchanged), touches no other comment, and a status that is one of
\* the three stays one of the three.
C8_ModerationOverwrites ==
    [][/\ (last'.op \in ModerationOps /\ last'.code = 200 =>
                /\ last'.id \in Kept
                /\ comments'[last'.id].status = ModerationTarget(last'.op)
                /\ \A c \in Kept \ {last'.id} : comments'[c] = comments[c])
       /\ \A c \in Kept :
            comments[c].status \in TerminalStatuses =>
                comments'[c].status \in TerminalStatuses]_vars

\* C8 witness: a REJECTED or SPAM comment has just been approved
C8_Witness ==
    /\ last.op = "approveComment" /\ last.code = 200
    /\ last.was \in {"REJECTED", "SPAM"}
    /\ comments[last.id].status = "APPROVED"

\* C9: a comment whose status is not PENDING is never PENDING again, whatever
\* request follows; a comment that was deleted does not come back, new
\* comments take ids that were never used.
C9_NeverBackToPending ==
    [][/\ \A c \in Kept :
            comments[c].status # "PENDING" => comments'[c].status # "PENDING"
       /\ \A c \in Created : c >= nextCommentId
       /\ nextCommentId' >= nextCommentId
       /\ \A c \in DOMAIN comments : c < nextCommentId]_vars

\* C9 witness: an APPROVED comment has just been edited and is still APPROVED
C9_Witness ==
    /\ last.op = "updateComment" /\ last.code = 200
    /\ last.id \in DOMAIN comments
    /\ comments[last.id].status = "APPROVED"

\* C10 as stated: deleting a comment that has a reply is answered 400,
\* whatever the role of the (signed-in) requester.
C10_RepliesAlways400 ==
    (/\ last.op = "deleteComment"
     /\ LastRole # "anonymous"
     /\ last.id \in DOMAIN comments
     /\ replyCount(comments, last.id) > 0) => last.code = 400

\* C10 amended: deleting a comment that has a reply never deletes anything;
\* the answer is 400 for the owner of the comment and for an ADMIN, and 403
\* for every other signed-in requester (the permission check comes first).
C10_RepliesBlockDelete ==
    [][(/\ last'.op = "deleteComment"
        /\ LastRole' # "anonymous"
        /\ last'.id \in DOMAIN comments
        /\ replyCount(comments, last'.id) > 0) =>
            /\ comments' = comments
            /\ last'.code = IF \/ comments[last'.id].userId = LastUserId'
                               \/ LastRole' = "ADMIN"
                            THEN 400 ELSE 403]_vars

\* C10 witness: the owner of a comment with a reply asked to delete it, got 400
C10_Witness ==
    /\ last.op = "deleteComment" /\ last.code = 400
    /\ last.id \in DOMAIN comments
    /\ replyCount(comments, last.id) > 0
    /\ LastRole = "AUTHOR"
    /\ comments[last.id].userId = LastUserId

(***************************************************************************)
(* Properties of the public listing, checked under SpecListing             *)
(***************************************************************************)
Level1 == {listing[i] : i \in DOMAIN listing}
Level2 == UNION {{n.replies[j] : j \in DOMAIN n.replies} : n \in Level1}
Level3 == UNION {{n.replies[j] : j \in DOMAIN n.replies} : n \in Level2}
ListedIds == {n.id : n \in Level1 \cup Level2 \cup Level3}

\* C6: the listing of an article holds APPROVED comments only, at every
\* level: its top level the APPROVED comments of that article without a
\* parent, each list of replies APPROVED replies of the comment above it.
C6_ListingApprovedOnly ==
    last.op = "getArticleComments" =>
        /\ \A c \in ListedIds :
             c \in DOMAIN comments /\ comments[c].status = "APPROVED"
                                   /\ comments[c].articleId = last.id
        /\ \A n \in Level1 : comments[n.id].parentId = Null
        /\ \A n \in Level1 \cup Level2 :
             \A j \in DOMAIN n.replies : comments[n.replies[j].id].parentId = n.id

\* C6 witness: a listing three levels deep that leaves out a comment of the
\* article that is not APPROVED and hangs under a listed comment
C6_Witness ==
    /\ last.op = "getArticleComments"
    /\ Level3 # {}
    /\ \E c \in DOMAIN comments :
         /\ comments[c].articleId = last.id
         /\ comments[c].status # "APPROVED"
         /\ comments[c].parentId \in {n.id : n \in Level2}
         /\ c \notin ListedIds

RECURSIVE ApprovedChain(_, _)
ApprovedChain(cs, c) ==
    /\ c \in DOMAIN cs
    /\ cs[c].status = "APPROVED"
    /\ (cs[c].parentId = Null \/ ApprovedChain(cs, cs[c].parentId))

\* C7: every APPROVED comment of the article whose ancestors are all APPROVED
\* is in the listing, at whatever depth it sits.
C7_AllApprovedListed ==
    last.op = "getArticleComments" =>
        \A c \in DOMAIN comments :
            (comments[c].articleId = last.id /\ ApprovedChain(comments, c)) =>
                c \in ListedIds

(***************************************************************************)
(* utils/slugify.ts.  A text is a sequence of one-character strings; the   *)
(* slug is a string.  slugify(text, {lower, strict, trim}) removes every   *)
(* character that is not a letter, a digit or white space, trims, turns    *)
(* each run of white space into one '-' and lower-cases.                   *)
(***************************************************************************)
MaxAnswers == 4
MaxArticles == 2

Letters == {"H", "Y", "h", "i", "o", "u", "y"}
Digits == {"1"}
toLowerCase(c) == IF c = "H" THEN "h" ELSE IF c = "Y" THEN "y" ELSE c

RECURSIVE trimStart(_)
trimStart(cs) ==
    IF cs # <<>> /\ Head(cs) = " " THEN trimStart(Tail(cs)) ELSE cs

RECURSIVE trimEnd(_)
trimEnd(cs) ==
    IF cs # <<>> /\ cs[Len(cs)] = " "
    THEN trimEnd(SubSeq(cs, 1, Len(cs) - 1)) ELSE cs

\* slug.replace(/\s+/g, '-')
RECURSIVE replaceSpaces(_)
replaceSpaces(cs) ==
    IF cs = <<>> THEN <<>>
    ELSE IF Head(cs) = " " THEN <<"-">> \o replaceSpaces(trimStart(Tail(cs)))
    ELSE <<Head(cs)>> \o replaceSpaces(Tail(cs))

RECURSIVE joinChars(_)
joinChars(cs) == IF cs = <<>> THEN "" ELSE Head(cs) \o joinChars(Tail(cs))

generateSlug(text) ==
    LET strict == SelectSeq(text, LAMBDA c : c \in Letters \cup Digits \cup {" "})
        dashed == replaceSpaces(trimEnd(trimStart(strict)))
    IN  joinChars([i \in 1..Len(dashed) |-> toLowerCase(dashed[i])])

\* the titles of the model: the first two have the slug hi-you, the third
\* the slug hi-you-1
Titles ==
    { <<"H", "i", " ", "Y", "o", "u">>,
      <<" ", "h", "i", " ", " ", "y", "o", "u", "!">>,
      <<"H", "i", " ", "Y", "o", "u", " ", "1">> }

\* the rows of the article table that hold a slug (findUnique({where: {slug}}))
findUniqueBySlug(as, slug) == {a \in DOMAIN as : as[a].slug = slug}

\* The checkExists callbacks the code passes, as values:
\*   create   (slug) => !!existing                         (createArticle)
\*   update   (slug) => !!existing && existing.id !== id   (updateArticle)
\*   mock     jest.fn().mockResolvedValueOnce(...)...: the n-th call gets the
\*            n-th answer, a call after the last one gets undefined
checkExistsCreate(as) == [kind |-> "create", articles |-> as, id |-> Null, answers |-> <<>>]
checkExistsUpdate(as, id) == [kind |-> "update", articles |-> as, id |-> id, answers |-> <<>>]
checkExistsMock(answers) == [kind |-> "mock", articles |-> <<>>, id |-> Null, answers |-> answers]

\* await checkExists(slug), the n-th call of the callback
callCheckExists(checkExists, slug, n) ==
    IF checkExists.kind = "mock"
    THEN n <= Len(checkExists.answers) /\ checkExists.answers[n]
    ELSE findUniqueBySlug(checkExists.articles, slug) \ {checkExists.id} # {}

\* mutant: the counter is appended to the previous candidate
nextCandidate_compounding(text, slug, counter) == slug \o "-" \o ToString(counter)

\* slug = `${generateSlug(text)}-${counter}`
nextCandidate(text, slug, counter) == generateSlug(text) \o "-" \o ToString(counter)

\* the while loop; asked is the log of the slugs handed to checkExists
RECURSIVE uniqueSlugLoop(_, _, _, _, _)
uniqueSlugLoop(text, checkExists, slug, counter, asked) ==
    IF callCheckExists(checkExists, slug, Len(asked) + 1)
    THEN uniqueSlugLoop(text, checkExists, nextCandidate(text, slug, counter),
                        counter + 1, Append(asked, slug))
    ELSE [slug |-> slug, asked |-> Append(asked, slug)]

generateUniqueSlug(text, checkExists) ==
    uniqueSlugLoop(text, checkExists, generateSlug(text), 1, <<>>)

(***************************************************************************)
(* SpecUniqueSlug: generateUniqueSlug called with a mocked checkExists     *)
(***************************************************************************)
RECURSIVE BoolSeqs(_)
BoolSeqs(n) ==
    IF n = 0 THEN {<<>>}
    ELSE BoolSeqs(n - 1) \cup {Append(q, b) : q \in {r \in BoolSeqs(n - 1) : Len(r) = n - 1}, b \in BOOLEAN}

InitUniqueSlug ==
    /\ InitCore /\ now = 0
    /\ articles = <<>> /\ nextArticleId = 1 /\ everPublished = {} /\ procs = <<>>
    /\ categories = <<>> /\ tags = {}
    /\ \E text \in Titles, answers \in BoolSeqs(MaxAnswers) :
           res = [op |-> "input", text |-> text, answers |-> answers,
                  slug |-> "", asked |-> <<>>]

GenerateUniqueSlug ==
    /\ res.op = "input"
    /\ LET r == generateUniqueSlug(res.text, checkExistsMock(res.answers))
       IN  res' = [res EXCEPT !.op = "generateUniqueSlug", !.slug = r.slug, !.asked = r.asked]
    /\ UNCHANGED <<now, articles, nextArticleId, everPublished, procs, categories, tags>>
    /\ UNCHANGED coreVars

NextUniqueSlug == GenerateUniqueSlug

SpecUniqueSlug == InitUniqueSlug /\ [][NextUniqueSlug]_vars

\* C12: generateUniqueSlug returns the first candidate of s, s-1, s-2, ...
\* (the counter appended to s itself) that checkExists does not report as
\* existing: it asks once per candidate, in that order, every candidate before
\* the returned one was answered true and the returned one was not; for the
\* answers true, true, true, false it returns s-3 after exactly four checks.
Candidate(s, k) == IF k = 0 THEN s ELSE s \o "-" \o ToString(k)
MockAnswer(answers, n) == n <= Len(answers) /\ answers[n]
C12_FirstFreeCandidate ==
    res.op = "generateUniqueSlug" =>
        LET s == generateSlug(res.text)
            n == Len(res.asked)
        IN  /\ n >= 1
            /\ \A i \in 1..n : res.asked[i] = Candidate(s, i - 1)
            /\ \A i \in 1..(n - 1) : MockAnswer(res.answers, i)
            /\ ~MockAnswer(res.answers, n)
            /\ res.slug = res.asked[n]
            /\ (res.answers = <<TRUE, TRUE, TRUE, FALSE>>
                    => res.slug = s \o "-3" /\ n = 4)
C12_Witness ==
    /\ res.op = "generateUniqueSlug"
    /\ res.answers = <<TRUE, TRUE, TRUE, FALSE>>
    /\ res.slug = "hi-you-3"
    /\ Len(res.asked) = 4

(***************************************************************************)
(* services/articleService.ts.  articles maps the id of a stored article   *)
(* to its row; a title that is not given is NoTitle (the empty title is    *)
(* <<>>), tag ids that are not given are NoTagIds.  Each method returns    *)
(* the table it leaves behind and the error it throws.                     *)
(***************************************************************************)
ArticleStatus == {"DRAFT", "PUBLISHED", "ARCHIVED"}
NoTitle == <<Absent>>
NoTagIds == {Null}

\* mutant: the slug column has no unique index
articleCreate_noUniqueIndex(as, nid, tgs, row) ==
    IF ~(row.tagIds \subseteq tgs)
    THEN [as |-> as, nid |-> nid, err |-> PrismaKnownError("P2025"), id |-> Null]
    ELSE [as |-> as @@ (nid :> row), nid |-> nid + 1, err |-> NoError, id |-> nid]

\* prisma.article.create: slug is a unique column, tags are connected to
\* existing rows
articleCreate(as, nid, tgs, row) ==
    IF findUniqueBySlug(as, row.slug) # {}
    THEN [as |-> as, nid |-> nid, err |-> PrismaKnownError("P2002"), id |-> Null]
    ELSE IF ~(row.tagIds \subseteq tgs)
    THEN [as |-> as, nid |-> nid, err |-> PrismaKnownError("P2025"), id |-> Null]
    ELSE [as |-> as @@ (nid :> row), nid |-> nid + 1, err |-> NoError, id |-> nid]

\* the data of prisma.article.create
newArticleRow(data, slug, authorId, t) ==
    [title |-> data.title,
     slug |-> slug,
     authorId |-> authorId,
     categoryId |-> data.categoryId,
     status |-> IF data.status # Absent THEN data.status ELSE "DRAFT",
     publishedAt |-> IF data.status = "PUBLISHED" THEN t ELSE Null,
     tagIds |-> IF data.tagIds # NoTagIds THEN data.tagIds ELSE {}]

\* mutant: publishedAt is left null whatever the status
createArticle_neverStamped(as, nid, cats, tgs, data, authorId, t) ==
    LET slug == generateUniqueSlug(data.title, checkExistsCreate(as)).slug IN
    IF data.categoryId # Null /\ data.categoryId \notin DOMAIN cats
    THEN [as |-> as, nid |-> nid, err |-> ApiError(404), id |-> Null]
    ELSE articleCreate(as, nid, tgs,
            [newArticleRow(data, slug, authorId, t) EXCEPT !.publishedAt = Null])

createArticle(as, nid, cats, tgs, data, authorId, t) ==
    LET slug == generateUniqueSlug(data.title, checkExistsCreate(as)).slug IN
    IF data.categoryId # Null /\ data.categoryId \notin DOMAIN cats
    THEN [as |-> as, nid |-> nid, err |-> ApiError(404), id |-> Null]
    ELSE articleCreate(as, nid, tgs,
            newArticleRow(data, slug, authorId, t))

\* prisma.article.update of an existing row: slug is a unique column,
\* categoryId a foreign key, tags are set to existing rows
articleUpdate(as, id, cats, tgs, row) ==
    IF findUniqueBySlug(as, row.slug) \ {id} # {}
    THEN [as |-> as, err |-> PrismaKnownError("P2002")]
    ELSE IF row.categoryId # Null /\ row.categoryId \notin DOMAIN cats
    THEN [as |-> as, err |-> PrismaKnownError("P2003")]
    ELSE IF ~(row.tagIds \subseteq tgs)
    THEN [as |-> as, err |-> PrismaKnownError("P2025")]
    ELSE [as |-> [as EXCEPT ![id] = row], err |-> NoError]

\* mutant: on a change of title the slug is rebuilt from the title without
\* asking the table for a free candidate
updateArticle_slugUnchecked(as, id, cats, tgs, data, userId, userRole, t) ==
    IF id \notin DOMAIN as
    THEN [as |-> as, err |-> ApiError(404)]
    ELSE IF as[id].authorId # userId /\ userRole # "ADMIN"
    THEN [as |-> as, err |-> ApiError(403)]
    ELSE LET existingArticle == as[id]
             slug == IF data.title \notin {NoTitle, <<>>} /\ data.title # existingArticle.title
                     THEN generateSlug(data.title)
                     ELSE existingArticle.slug
         IN  articleUpdate(as, id, cats, tgs,
                 [title |-> IF data.title # NoTitle THEN data.title ELSE existingArticle.title,
                  slug |-> slug,
                  authorId |-> existingArticle.authorId,
                  categoryId |-> IF data.categoryId # Null THEN data.categoryId
                                 ELSE existingArticle.categoryId,
                  status |-> IF data.status # Absent THEN data.status ELSE existingArticle.status,
                  publishedAt |-> IF data.status = "PUBLISHED" /\ existingArticle.publishedAt = Null
                                  THEN t ELSE existingArticle.publishedAt,
                  tagIds |-> IF data.tagIds # NoTagIds THEN data.tagIds
                             ELSE existingArticle.tagIds])

updateArticle(as, id, cats, tgs, data, userId, userRole, t) ==
    IF id \notin DOMAIN as
    THEN [as |-> as, err |-> ApiError(404)]
    ELSE IF as[id].authorId # userId /\ userRole # "ADMIN"
    THEN [as |-> as, err |-> ApiError(403)]
    ELSE LET existingArticle == as[id]
             slug == IF data.title \notin {NoTitle, <<>>} /\ data.title # existingArticle.title
                     THEN generateUniqueSlug(data.title, checkExistsUpdate(as, id)).slug
                     ELSE existingArticle.slug
         IN  articleUpdate(as, id, cats, tgs,
                 [title |-> IF data.title # NoTitle THEN data.title ELSE existingArticle.title,
                  slug |-> slug,
                  authorId |-> existingArticle.authorId,
                  categoryId |-> IF data.categoryId # Null THEN data.categoryId
                                 ELSE existingArticle.categoryId,
                  status |-> IF data.status # Absent THEN data.status ELSE existingArticle.status,
                  publishedAt |-> IF data.status = "PUBLISHED" /\ existingArticle.publishedAt = Null
                                  THEN t ELSE existingArticle.publishedAt,
                  tagIds |-> IF data.tagIds # NoTagIds THEN data.tagIds
                             ELSE existingArticle.tagIds])

publishArticle(as, id, t) ==
    IF id \notin DOMAIN as
    THEN [as |-> as, err |-> PrismaKnownError("P2025")]
    ELSE [as |-> [as EXCEPT ![id].status = "PUBLISHED", ![id].publishedAt = t],
          err |-> NoError]

archiveArticle(as, id) ==
    IF id \notin DOMAIN as
    THEN [as |-> as, err |-> PrismaKnownError("P2025")]
    ELSE [as |-> [as EXCEPT ![id].status = "ARCHIVED"], err |-> NoError]

\* mutant: an editor may delete the article of someone else
deleteArticle_editorsToo(as, id, userId, userRole) ==
    IF id \notin DOMAIN as
    THEN [as |-> as, err |-> ApiError(404)]
    ELSE IF as[id].authorId # userId /\ userRole \notin EditorRoles
    THEN [as |-> as, err |-> ApiError(403)]
    ELSE [as |-> [a \in DOMAIN as \ {id} |-> as[a]], err |-> NoError]

deleteArticle(as, id, userId, userRole) ==
    IF id \notin DOMAIN as
    THEN [as |-> as, err |-> ApiError(404)]
    ELSE IF as[id].authorId # userId /\ userRole # "ADMIN"
    THEN [as |-> as, err |-> ApiError(403)]
    ELSE [as |-> [a \in DOMAIN as \ {id} |-> as[a]], err |-> NoError]

(***************************************************************************)
(* SpecArticles and SpecSlugs: ArticleService called directly.  res is the *)
(* last call: its method, the id and title it was given (for createArticle *)
(* the id of the new row) and the status of its error, 0 for none.         *)
(* everPublished is a history variable: the ids of the articles whose      *)
(* status has been PUBLISHED.  new Date() is the clock, which starts at 1. *)
(***************************************************************************)
Outcome(err) == IF err = NoError THEN 0 ELSE errorHandler(err).statusCode
ArticleCalled(op, id, title, err) ==
    [op |-> op, id |-> id, title |-> title, code |-> Outcome(err)]
PublishedIds(as) == {a \in DOMAIN as : as[a].status = "PUBLISHED"}

CreateArticle(data, authorId) ==
    /\ nextArticleId <= MaxArticles
    /\ LET r == createArticle(articles, nextArticleId, categories, tags, data, authorId, now) IN
       /\ articles' = r.as
       /\ nextArticleId' = r.nid
       /\ everPublished' = everPublished \cup PublishedIds(r.as)
       /\ res' = ArticleCalled("createArticle", r.id, data.title, r.err)
    /\ UNCHANGED <<now, procs, categories, tags>>
    /\ UNCHANGED coreVars

UpdateArticle(id, data, userId, userRole) ==
    /\ LET r == updateArticle(articles, id, categories, tags, data, userId, userRole, now) IN
       /\ articles' = r.as
       /\ everPublished' = everPublished \cup PublishedIds(r.as)
       /\ res' = ArticleCalled("updateArticle", id, data.title, r.err)
    /\ UNCHANGED <<now, nextArticleId, procs, categories, tags>>
    /\ UNCHANGED coreVars

PublishArticle(id) ==
    /\ LET r == publishArticle(articles, id, now) IN
       /\ articles' = r.as
       /\ everPublished' = everPublished \cup PublishedIds(r.as)
       /\ res' = ArticleCalled("publishArticle", id, NoTitle, r.err)
    /\ UNCHANGED <<now, nextArticleId, procs, categories, tags>>
    /\ UNCHANGED coreVars

ArchiveArticle(id) ==
    /\ LET r == archiveArticle(articles, id) IN
       /\ articles' = r.as
       /\ everPublished' = everPublished \cup PublishedIds(r.as)
       /\ res' = ArticleCalled("archiveArticle", id, NoTitle, r.err)
    /\ UNCHANGED <<now, nextArticleId, procs, categories, tags>>
    /\ UNCHANGED coreVars

DeleteArticle(id, userId, userRole) ==
    /\ LET r == deleteArticle(articles, id, userId, userRole) IN
       /\ articles' = r.as
       /\ res' = ArticleCalled("deleteArticle", id, NoTitle, r.err)
    /\ UNCHANGED <<now, nextArticleId, everPublished, procs, categories, tags>>
    /\ UNCHANGED coreVars

HiYou == <<"H", "i", " ", "Y", "o", "u">>
StatusBodies ==
    [title : {HiYou}, status : ArticleStatus \cup {Absent}, categoryId : {Null},
     tagIds : {NoTagIds}]
StatusUpdates ==
    [title : {NoTitle}, status : ArticleStatus \cup {Absent}, categoryId : {Null},
     tagIds : {NoTagIds}]
TitleBodies ==
    [title : Titles, status : {Absent}, categoryId : {Null}, tagIds : {NoTagIds}]

InitArticles ==
    /\ InitCore
    /\ now = 1
    /\ InitContent

\* articles written by the author (user 3); the author and the editor update
NextArticles ==
    \/ \E d \in StatusBodies : CreateArticle(d, 3)
    \/ \E id \in 1..MaxArticles, d \in StatusUpdates, u \in {2, 3} :
           UpdateArticle(id, d, u, users[u].role)
    \/ \E id \in 1..MaxArticles : PublishArticle(id)
    \/ \E id \in 1..MaxArticles : ArchiveArticle(id)

SpecArticles == InitArticles /\ [][NextArticles]_vars

\* articles written by the author; the author and the editor rename and delete
NextSlugs ==
    \/ \E d \in TitleBodies : CreateArticle(d, 3)
    \/ \E id \in 1..MaxArticles, d \in TitleBodies, u \in {2, 3} :
           UpdateArticle(id, d, u, users[u].role)
    \/ \E id \in 1..MaxArticles, u \in {2, 3} : DeleteArticle(id, u, users[u].role)

SpecSlugs == InitArticles /\ [][NextSlugs]_vars

\* C11: an article's publishedAt is non-null exactly when its status has been
\* PUBLISHED at some point since its creation.
C11_PublishedAtIffEverPublished ==
    \A a \in DOMAIN articles : (articles[a].publishedAt # Null) <=> (a \in everPublished)
C11_Witness ==
    \E a, b \in DOMAIN articles :
        /\ articles[a].status = "ARCHIVED"
        /\ articles[a].publishedAt # Null
        /\ a \in everPublished
        /\ articles[b].publishedAt = Null
        /\ res.op = "updateArticle" /\ res.code = 0

\* C13: no two articles have the same slug, and a created or renamed article
\* gets the first of s, s-1, s-2, ... that no other article holds: from a
\* table where s and s-1 are free, two creations with the same title get s
\* and s-1.
SlugsUnique ==
    \A a, b \in DOMAIN articles : a # b => articles[a].slug # articles[b].slug
FirstFree(as, text, self) ==
    LET s == generateSlug(text)
        free(k) == findUniqueBySlug(as, Candidate(s, k)) \ {self} = {}
        k == CHOOSE k \in 0..Cardinality(DOMAIN as) :
                 free(k) /\ \A j \in 0..(k - 1) : ~free(j)
    IN  Candidate(s, k)
SlugStep ==
    /\ res'.op = "createArticle" =>
           /\ res'.id \in DOMAIN articles' \ DOMAIN articles
           /\ articles'[res'.id].slug = FirstFree(articles, res'.title, Null)
    /\ (res'.op = "updateArticle" /\ res'.code \notin {403, 404}) =>
           articles'[res'.id].slug =
               IF res'.title # articles[res'.id].title
               THEN FirstFree(articles, res'.title, res'.id)
               ELSE articles[res'.id].slug
C13_SlugsUnique == [](SlugsUnique) /\ [][SlugStep]_vars
C13_Witness ==
    /\ DOMAIN articles = {1, 2}
    /\ articles[1].title = HiYou /\ articles[1].slug = "hi-you"
    /\ articles[2].title = HiYou /\ articles[2].slug = "hi-you-1"
    /\ res.op = "createArticle"

(***************************************************************************)
(* SpecRace: two POST /api/articles requests of the author in flight.  A   *)
(* request yields at every await of createArticle: the findUnique of each  *)
(* round of the slug loop and the final prisma.article.create.  procs[p]   *)
(* is the position of request p, its title, the loop's slug and counter    *)
(* and the status of its response (0: none yet).                           *)
(***************************************************************************)
Procs == {1, 2}
IdleProc == [pc |-> "idle", title |-> NoTitle, slug |-> "", counter |-> 1, code |-> 0]

\* the request arrives: let slug = generateSlug(text); let counter = 1
StartCreate(p, title) ==
    /\ procs[p].pc \in {"idle", "done"}
    /\ nextArticleId <= MaxArticles
    /\ procs' = [procs EXCEPT ![p] = [pc |-> "check", title |-> title,
                                      slug |-> generateSlug(title), counter |-> 1,
                                      code |-> 0]]
    /\ UNCHANGED <<now, articles, nextArticleId, everPublished, categories, tags, res>>
    /\ UNCHANGED coreVars

\* one round of while (await checkExists(slug))
CheckExists(p) ==
    /\ procs[p].pc = "check"
    /\ procs' = [procs EXCEPT ![p] =
           IF callCheckExists(checkExistsCreate(articles), procs[p].slug, procs[p].counter)
           THEN [@ EXCEPT !.slug = nextCandidate(procs[p].title, procs[p].slug, procs[p].counter),
                          !.counter = @ + 1]
           ELSE [@ EXCEPT !.pc = "create"]]
    /\ UNCHANGED <<now, articles, nextArticleId, everPublished, categories, tags, res>>
    /\ UNCHANGED coreVars

\* await prisma.article.create, then the controller's 201 or the error handler
InsertArticle(p) ==
    /\ procs[p].pc = "create"
    /\ LET data == [title |-> procs[p].title, status |-> Absent, categoryId |-> Null,
                    tagIds |-> NoTagIds]
           r == articleCreate(articles, nextArticleId, tags,
                              newArticleRow(data, procs[p].slug, 3, now))
       IN  /\ articles' = r.as
           /\ nextArticleId' = r.nid
           /\ procs' = [procs EXCEPT ![p].pc = "done",
                                     ![p].code = IF r.err = NoError THEN 201
                                                 ELSE errorHandler(r.err).statusCode]
    /\ UNCHANGED <<now, everPublished, categories, tags, res>>
    /\ UNCHANGED coreVars

InitRace ==
    /\ InitCore
    /\ now = 1
    /\ articles = <<>> /\ nextArticleId = 1 /\ everPublished = {}
    /\ categories = <<>> /\ tags = {} /\ res = NoRes
    /\ procs = [p \in Procs |-> IdleProc]

NextRace ==
    \/ \E p \in Procs, title \in Titles : StartCreate(p, title)
    \/ \E p \in Procs : CheckExists(p)
    \/ \E p \in Procs : InsertArticle(p)

SpecRace == InitRace /\ [][NextRace]_vars

\* C14: with two createArticle requests in flight no two stored articles ever
\* have the same slug: an insert whose slug another row already holds stores
\* nothing, and its request ends there with the response 409 (it does not go
\* back to the slug loop); an insert of a free slug stores the row.
Inserting(p) == procs[p].pc = "create" /\ procs'[p].pc # "create"
RaceStep ==
    \A p \in Procs :
        Inserting(p) =>
            IF findUniqueBySlug(articles, procs[p].slug) # {}
            THEN /\ articles' = articles
                 /\ procs'[p].pc = "done"
                 /\ procs'[p].code = 409
            ELSE /\ DOMAIN articles' = DOMAIN articles \cup {nextArticleId}
                 /\ articles'[nextArticleId].slug = procs[p].slug
                 /\ procs'[p].code = 201
C14_RaceEndsIn409 == [](SlugsUnique) /\ [][RaceStep]_vars
\* both requests passed the check with the same candidate; one was stored,
\* the other answered 409
C14_Witness ==
    /\ procs[1].pc = "done" /\ procs[2].pc = "done"
    /\ procs[1].title = procs[2].title
    /\ procs[1].slug = procs[2].slug
    /\ {procs[1].code, procs[2].code} = {201, 409}
    /\ Cardinality(findUniqueBySlug(articles, procs[1].slug)) = 1

(***************************************************************************)
(* SpecErrors: the two places that answer a failed request.  A request     *)
(* reaches validate(schema, source) with some req[source], or an error     *)
(* thrown further on reaches errorHandler.  res is the request or error    *)
(* and, once handled, the responses sent (res.status(..).json(..)) and the *)
(* calls of next.                                                          *)
(***************************************************************************)
SchemaNames ==
    {"commentParams", "createComment", "updateComment", "articleParams",
     "createArticle", "updateArticle", "categoryParams", "throwing"}

\* schemas/article.schema.ts and schemas/category.schema.ts
articleParamsSchema(params) ==
    IF params.id \notin DigitStrings
    THEN [success |-> FALSE, data |-> [id |-> Null],
          issues |-> <<Issue("id", "Invalid article ID")>>]
    ELSE [success |-> TRUE, data |-> [id |-> Number(params.id)], issues |-> <<>>]

categoryParamsSchema(params) ==
    IF params.id \notin DigitStrings
    THEN [success |-> FALSE, data |-> [id |-> Null],
          issues |-> <<Issue("id", "Invalid category ID")>>]
    ELSE [success |-> TRUE, data |-> [id |-> Number(params.id)], issues |-> <<>>]

\* title, content and categoryId are required
createArticleSchema(body) ==
    LET issues ==
            IssueIf(body.title = NoTitle, "title", "Required")
            \o IssueIf(body.title = <<>>, "title", "Title is required")
            \o IssueIf(body.content = Absent, "content", "Required")
            \o IssueIf(body.content = "", "content", "Content is required")
            \o IssueIf(body.categoryId = Null, "categoryId", "Required")
            \o IssueIf(body.status \notin ArticleStatus \cup {Absent}, "status",
                       "Invalid enum value")
    IN  [success |-> issues = <<>>, data |-> body, issues |-> issues]

\* every key is optional
updateArticleSchema(body) ==
    LET issues ==
            IssueIf(body.title = <<>>, "title", "Title cannot be empty")
            \o IssueIf(body.content = "", "content", "Content cannot be empty")
            \o IssueIf(body.status \notin ArticleStatus \cup {Absent}, "status",
                       "Invalid enum value")
    IN  [success |-> issues = <<>>, data |-> body, issues |-> issues]

\* schema.safeParse(req[source]); "throwing" stands for a schema whose
\* transform throws
safeParse(schema, raw) ==
    CASE schema = "commentParams" -> commentParamsSchema(raw)
      [] schema = "createComment" -> createCommentSchema(raw)
      [] schema = "updateComment" -> updateCommentSchema(raw)
      [] schema = "articleParams" -> articleParamsSchema(raw)
      [] schema = "createArticle" -> createArticleSchema(raw)
      [] schema = "updateArticle" -> updateArticleSchema(raw)
      [] schema = "categoryParams" -> categoryParamsSchema(raw)
      [] OTHER -> Threw

ValidateRequests ==
    [schema : {"commentParams", "throwing"}, source : {"params"},
     raw : [id : DigitStrings \cup {"abc", ""}]]
    \cup [schema : {"createComment"}, source : {"body"},
          raw : [articleId : {1}, content : {"", "x"}, parentId : {Null, 1},
                 authorName : {Absent, "", "G"},
                 authorEmail : {Absent, "g@x.com", "not-an-email"},
                 status : {Absent, "APPROVED"}]]
    \cup [schema : {"updateComment"}, source : {"body"}, raw : UpdateBodies]

ErrorNames == {"Error", "JsonWebTokenError", "TokenExpiredError", "MulterError"}
ThrownErrors ==
    [type : {"ApiError"}, name : ErrorNames, message : {"m"},
     statusCode : {400, 401, 403, 404, 409, 500}, code : {Absent}, target : {Absent}]
    \cup [type : {"PrismaClientKnownRequestError"}, name : ErrorNames, message : {"m"},
          statusCode : {0}, code : {"P2002", "P2025", "P2003", "P2014", "P2021"},
          target : {Absent, "slug"}]
    \cup [type : {"PrismaClientValidationError", "PrismaClientInitializationError", "Error"},
          name : ErrorNames, message : {"m"}, statusCode : {0}, code : {Absent},
          target : {Absent}]
NodeEnvs == {"production", "development"}

InitErrors ==
    /\ InitCore /\ now = 0
    /\ articles = <<>> /\ nextArticleId = 1 /\ everPublished = {} /\ procs = <<>>
    /\ categories = <<>> /\ tags = {}
    /\ \/ \E r \in ValidateRequests :
              res = [op |-> "request", schema |-> r.schema, source |-> r.source,
                     raw |-> r.raw]
       \/ \E e \in ThrownErrors, env \in NodeEnvs :
              res = [op |-> "thrown", err |-> e, env |-> env]

Validate ==
    /\ res.op = "request"
    /\ LET v == validate(safeParse(res.schema, res.raw)) IN
       res' = [op |-> "validate", schema |-> res.schema, source |-> res.source,
               raw |-> res.raw, data |-> v.data, calls |-> v.calls,
               responses |-> IF v.status = 0 THEN <<>>
                             ELSE <<[status |-> v.status, body |-> v.body]>>]
    /\ UNCHANGED <<now, articles, nextArticleId, everPublished, procs, categories, tags>>
    /\ UNCHANGED coreVars

ErrorHandler ==
    /\ res.op = "thrown"
    /\ res' = [op |-> "errorHandler", err |-> res.err, env |-> res.env, calls |-> <<>>,
               responses |-> <<errorResponse(res.err, res.env)>>]
    /\ UNCHANGED <<now, articles, nextArticleId, everPublished, procs, categories, tags>>
    /\ UNCHANGED coreVars

NextErrors == Validate \/ ErrorHandler

SpecErrors == InitErrors /\ [][NextErrors]_vars

\* C15: validate answers a failed parse with 400 and one {field, message}
\* entry per issue and does not call next; after a successful parse req[source]
\* is the parsed and transformed value (the id string '7' is the number 7) and
\* next() is called once without an error; it never both responds and calls
\* next.
C15_ValidateRespondsOrNext ==
    res.op = "validate" =>
        LET parsed == safeParse(res.schema, res.raw) IN
        /\ (parsed # Threw /\ ~parsed.success) =>
               /\ res.calls = <<>>
               /\ Len(res.responses) = 1
               /\ res.responses[1].status = 400
               /\ Len(res.responses[1].body.errors) = Len(parsed.issues)
               /\ \A i \in 1..Len(parsed.issues) :
                      /\ res.responses[1].body.errors[i].field = parsed.issues[i].path[1]
                      /\ res.responses[1].body.errors[i].message = parsed.issues[i].message
        /\ (parsed # Threw /\ parsed.success) =>
               /\ res.data = parsed.data
               /\ res.calls = <<NoError>>
               /\ res.responses = <<>>
        /\ (res.schema = "commentParams" /\ res.raw = [id |-> "7"]) => res.data = [id |-> 7]
        /\ ~(res.responses # <<>> /\ res.calls # <<>>)
C15_Witness ==
    /\ res.op = "validate"
    /\ res.schema = "createComment"
    /\ res.calls = <<>>
    /\ Len(res.responses) = 1
    /\ Len(res.responses[1].body.errors) = 3

\* C16: every failure response has the body {success: false, error, ...},
\* whatever the kind of failure.
C16_UniformFailureBody ==
    res.op \in {"validate", "errorHandler"} =>
        \A i \in 1..Len(res.responses) :
            res.responses[i].status >= 400 =>
                /\ {"success", "error"} \subseteq DOMAIN res.responses[i].body
                /\ res.responses[i].body.success = FALSE

\* C18: errorHandler sends exactly one response, with success = false, whose
\* status and message follow the first rule the error matches: ApiError, then
\* the Prisma known request error codes, then the Prisma validation error,
\* then the names JsonWebTokenError, TokenExpiredError, MulterError, then 500.
C18_FirstMatchingRule ==
    res.op = "errorHandler" =>
        LET e == res.err
            status == res.responses[1].status
            message == res.responses[1].body.error
        IN  /\ Len(res.responses) = 1
            /\ res.calls = <<>>
            /\ res.responses[1].body.success = FALSE
            /\ IF e.type = "ApiError"
               THEN status = e.statusCode /\ message = e.message
               ELSE IF e.type = "PrismaClientKnownRequestError"
               THEN /\ e.code = "P2002" => status = 409
                    /\ e.code = "P2025" => status = 404 /\ message = "Record not found"
                    /\ e.code = "P2003" => status = 400
                    /\ e.code = "P2014" => status = 400
                    /\ e.code \notin {"P2002", "P2025", "P2003", "P2014"} =>
                           status = 400 /\ message = "Database error occurred"
               ELSE IF e.type = "PrismaClientValidationError"
               THEN status = 400 /\ message = "Invalid data provided"
               ELSE IF e.name = "JsonWebTokenError"
               THEN status = 401 /\ message = "Invalid token"
               ELSE IF e.name = "TokenExpiredError"
               THEN status = 401 /\ message = "Token expired"
               ELSE IF e.name = "MulterError"
               THEN status = 400
               ELSE status = 500 /\ message = "Internal Server Error"
\* an error that matches two rules is answered by the first
C18_Witness ==
    /\ res.op = "errorHandler"
    /\ res.err.type = "PrismaClientKnownRequestError"
    /\ res.err.code = "P2002"
    /\ res.err.name = "TokenExpiredError"
    /\ res.responses[1].status = 409

(***************************************************************************)
(* utils/pagination.ts.  params is the object handed to getPagination: a   *)
(* key that is missing is not in its domain.                               *)
(***************************************************************************)
MaxNegative == 2
MaxPage == 4
MaxLimit == 101

Max(a, b) == IF a >= b THEN a ELSE b
Min(a, b) == IF a <= b THEN a ELSE b

\* mutant: the limit is not capped
getPagination_uncapped(params) ==
    LET page == Max(1, IF "page" \in DOMAIN params /\ params.page # 0
                       THEN params.page ELSE 1)
        limit == Max(1, IF "limit" \in DOMAIN params THEN params.limit ELSE 10)
    IN  [skip |-> (page - 1) * limit, take |-> limit, page |-> page, limit |-> limit]

\* params.page || 1 replaces a missing page and 0; params.limit ?? 10 replaces
\* a missing limit only
getPagination(params) ==
    LET page == Max(1, IF "page" \in DOMAIN params /\ params.page # 0
                       THEN params.page ELSE 1)
        limit == Min(100, Max(1, IF "limit" \in DOMAIN params THEN params.limit ELSE 10))
    IN  [skip |-> (page - 1) * limit, take |-> limit, page |-> page, limit |-> limit]

PaginationParams ==
    [page : (0 - MaxNegative)..MaxPage, limit : (0 - MaxNegative)..MaxLimit]
    \cup [page : (0 - MaxNegative)..MaxPage]
    \cup [limit : (0 - MaxNegative)..MaxLimit]
    \cup {<<>>}

InitPagination ==
    /\ InitCore /\ now = 0
    /\ articles = <<>> /\ nextArticleId = 1 /\ everPublished = {} /\ procs = <<>>
    /\ categories = <<>> /\ tags = {}
    /\ \E params \in PaginationParams : res = [op |-> "params", params |-> params]

GetPagination ==
    /\ res.op = "params"
    /\ res' = [op |-> "getPagination", params |-> res.params,
               out |-> getPagination(res.params)]
    /\ UNCHANGED <<now, articles, nextArticleId, everPublished, procs, categories, tags>>
    /\ UNCHANGED coreVars

NextPagination == GetPagination

SpecPagination == InitPagination /\ [][NextPagination]_vars

\* C19: for every integer page and limit, given or missing, getPagination
\* returns page >= 1, 1 <= limit <= 100, take = limit and
\* skip = (page - 1) * limit >= 0; a missing page is 1 and a missing limit 10;
\* a page >= 1 and a limit within 1..100 are returned as given.
C19_PaginationClamped ==
    res.op = "getPagination" =>
        LET q == res.params
            out == res.out
        IN  /\ out.page >= 1
            /\ out.limit >= 1 /\ out.limit <= 100
            /\ out.take = out.limit
            /\ out.skip = (out.page - 1) * out.limit
            /\ out.skip >= 0
            /\ "page" \notin DOMAIN q => out.page = 1
            /\ "limit" \notin DOMAIN q => out.limit = 10
            /\ ("page" \in DOMAIN q /\ q.page >= 1) => out.page = q.page
            /\ ("limit" \in DOMAIN q /\ q.limit \in 1..100) => out.limit = q.limit
C19_Witness ==
    /\ res.op = "getPagination"
    /\ DOMAIN res.params = {"page", "limit"}
    /\ res.params.page < 0
    /\ res.params.limit > 100
    /\ res.out = [skip |-> 0, take |-> 100, page |-> 1, limit |-> 100]

(***************************************************************************)
(* services/categoryService.ts and services/tagService.ts: deletion.       *)
(* categories maps the id of a stored category to its row, tags is the set *)
(* of the ids of the stored tags; an article refers to them by categoryId  *)
(* and tagIds.                                                             *)
(***************************************************************************)
articlesOfCategory(as, id) == {a \in DOMAIN as : as[a].categoryId = id}
childrenOfCategory(cats, id) == {c \in DOMAIN cats : cats[c].parentId = id}
articlesOfTag(as, id) == {a \in DOMAIN as : id \in as[a].tagIds}

\* mutant: only the articles are counted, not the subcategories
deleteCategory_ignoresChildren(cats, as, id) ==
    IF id \notin DOMAIN cats
    THEN [cats |-> cats, err |-> ApiError(404)]
    ELSE IF Cardinality(articlesOfCategory(as, id)) > 0
    THEN [cats |-> cats, err |-> ApiError(400)]
    ELSE [cats |-> [c \in DOMAIN cats \ {id} |-> cats[c]], err |-> NoError]

deleteCategory(cats, as, id) ==
    IF id \notin DOMAIN cats
    THEN [cats |-> cats, err |-> ApiError(404)]
    ELSE IF Cardinality(articlesOfCategory(as, id)) > 0
    THEN [cats |-> cats, err |-> ApiError(400)]
    ELSE IF Cardinality(childrenOfCategory(cats, id)) > 0
    THEN [cats |-> cats, err |-> ApiError(400)]
    ELSE [cats |-> [c \in DOMAIN cats \ {id} |-> cats[c]], err |-> NoError]

deleteTag(tgs, as, id) ==
    IF id \notin tgs
    THEN [tgs |-> tgs, err |-> ApiError(404)]
    ELSE IF Cardinality(articlesOfTag(as, id)) > 0
    THEN [tgs |-> tgs, err |-> ApiError(400)]
    ELSE [tgs |-> tgs \ {id}, err |-> NoError]

(***************************************************************************)
(* SpecTaxonomy: the article, category and tag services called directly on *)
(* a database that holds the categories 1, 2 (a child of 1) and 3 and the  *)
(* tags 1 and 2.  Articles are created, re-filed and deleted, categories   *)
(* and tags are deleted.                                                   *)
(***************************************************************************)
CategoryIds == {1, 2, 3}
TagIds == {1, 2}

DeleteCategory(id) ==
    /\ LET r == deleteCategory(categories, articles, id) IN
       /\ categories' = r.cats
       /\ res' = ArticleCalled("deleteCategory", id, NoTitle, r.err)
    /\ UNCHANGED <<now, articles, nextArticleId, everPublished, procs, tags>>
    /\ UNCHANGED coreVars

DeleteTag(id) ==
    /\ LET r == deleteTag(tags, articles, id) IN
       /\ tags' = r.tgs
       /\ res' = ArticleCalled("deleteTag", id, NoTitle, r.err)
    /\ UNCHANGED <<now, articles, nextArticleId, everPublished, procs, categories>>
    /\ UNCHANGED coreVars

\* an article filed under the child category, one tagged once, one filed under
\* category 3 with both tags
FiledBodies ==
    [title : {HiYou}, status : {Absent}, categoryId : {2}, tagIds : {NoTagIds}]
    \cup [title : {HiYou}, status : {Absent}, categoryId : {Null}, tagIds : {{1}}]
    \cup [title : {HiYou}, status : {Absent}, categoryId : {3}, tagIds : {{1, 2}}]
\* re-filing: a new category, or a new set of tags (possibly none)
RefileBodies ==
    [title : {NoTitle}, status : {Absent}, categoryId : {1}, tagIds : {NoTagIds}]
    \cup [title : {NoTitle}, status : {Absent}, categoryId : {Null}, tagIds : {{}, {2}}]

InitTaxonomy ==
    /\ InitCore
    /\ now = 1
    /\ articles = <<>> /\ nextArticleId = 1 /\ everPublished = {} /\ procs = <<>>
    /\ categories = [c \in CategoryIds |-> [parentId |-> IF c = 2 THEN 1 ELSE Null]]
    /\ tags = TagIds
    /\ res = NoRes

NextTaxonomy ==
    \/ \E d \in FiledBodies : CreateArticle(d, 3)
    \/ \E id \in 1..MaxArticles, d \in RefileBodies : UpdateArticle(id, d, 3, "AUTHOR")
    \/ \E id \in 1..MaxArticles : DeleteArticle(id, 3, "AUTHOR")
    \/ \E id \in CategoryIds : DeleteCategory(id)
    \/ \E id \in TagIds : DeleteTag(id)

SpecTaxonomy == InitTaxonomy /\ [][NextTaxonomy]_vars

\* C20: deleteCategory is refused with 400 while the category has an article or
\* a child category and deleteTag while the tag is attached to an article; a
\* refused call changes no table; without dependents the row is deleted.  So
\* every categoryId, parentId and tag id in a table refers to a stored row.
RefsIntact ==
    /\ \A a \in DOMAIN articles :
           /\ articles[a].categoryId \in DOMAIN categories \cup {Null}
           /\ articles[a].tagIds \subseteq tags
    /\ \A c \in DOMAIN categories : categories[c].parentId \in DOMAIN categories \cup {Null}
DeleteBlockedStep ==
    /\ (res'.op = "deleteCategory" /\ res'.id \in DOMAIN categories) =>
           IF \/ articlesOfCategory(articles, res'.id) # {}
              \/ childrenOfCategory(categories, res'.id) # {}
           THEN res'.code = 400 /\ UNCHANGED <<articles, categories, tags>>
           ELSE /\ res'.code = 0
                /\ DOMAIN categories' = DOMAIN categories \ {res'.id}
                /\ UNCHANGED <<articles, tags>>
    /\ (res'.op = "deleteTag" /\ res'.id \in tags) =>
           IF articlesOfTag(articles, res'.id) # {}
           THEN res'.code = 400 /\ UNCHANGED <<articles, categories, tags>>
           ELSE /\ res'.code = 0
                /\ tags' = tags \ {res'.id}
                /\ UNCHANGED <<articles, categories>>
C20_DeleteBlockedByDependents == [](RefsIntact) /\ [][DeleteBlockedStep]_vars
C20_Witness ==
    /\ res.op = "deleteCategory"
    /\ res.code = 400
    /\ res.id \in DOMAIN categories
    /\ childrenOfCategory(categories, res.id) = {}
    /\ articlesOfCategory(articles, res.id) # {}

(***************************************************************************)
(* SpecRoutes: the protected routes of routes/article.routes.ts,           *)
(* routes/comment.routes.ts and routes/category.routes.ts.  A route is the *)
(* sequence of middleware the router was given; the request runs through   *)
(* it until one of them answers or calls next(err), and reaches the        *)
(* controller, which calls the service, when all of them called next().    *)
(* res is the last request, the stages that ran and the response status.   *)
(***************************************************************************)
MaxRouteArticles == 2

Mw(name) == [name |-> name, schema |-> Absent, source |-> Absent]
Val(schema, source) == [name |-> "validate", schema |-> schema, source |-> source]

\* mutant: the validators are registered before the authenticator
RouteChains_validateFirst ==
    ("POST /api/articles" :>
        <<Val("createArticle", "body"), Mw("authenticate"), Mw("requireAuthor")>>)
    @@ ("PUT /api/articles/:id" :>
        <<Val("articleParams", "params"), Val("updateArticle", "body"),
          Mw("authenticate"), Mw("requireAuthor")>>)
    @@ ("PATCH /api/articles/:id/publish" :>
        <<Val("articleParams", "params"), Mw("authenticate"), Mw("requireAuthor")>>)
    @@ ("PATCH /api/articles/:id/archive" :>
        <<Val("articleParams", "params"), Mw("authenticate"), Mw("requireAuthor")>>)
    @@ ("DELETE /api/articles/:id" :>
        <<Val("articleParams", "params"), Mw("authenticate"), Mw("requireAuthor")>>)
    @@ ("PUT /api/comments/:id" :>
        <<Val("commentParams", "params"), Val("updateComment", "body"),
          Mw("authenticate")>>)
    @@ ("DELETE /api/comments/:id" :>
        <<Val("commentParams", "params"), Mw("authenticate")>>)
    @@ ("PATCH /api/comments/:id/approve" :>
        <<Val("commentParams", "params"), Mw("authenticate"), Mw("requireEditor")>>)
    @@ ("PATCH /api/comments/:id/reject" :>
        <<Val("commentParams", "params"), Mw("authenticate"), Mw("requireEditor")>>)
    @@ ("PATCH /api/comments/:id/spam" :>
        <<Val("commentParams", "params"), Mw("authenticate"), Mw("requireEditor")>>)
    @@ ("DELETE /api/categories/:id" :>
        <<Val("categoryParams", "params"), Mw("authenticate"), Mw("requireAdmin")>>)

RouteChains ==
    ("POST /api/articles" :>
        <<Mw("authenticate"), Mw("requireAuthor"), Val("createArticle", "body")>>)
    @@ ("PUT /api/articles/:id" :>
        <<Mw("authenticate"), Mw("requireAuthor"), Val("articleParams", "params"),
          Val("updateArticle", "body")>>)
    @@ ("PATCH /api/articles/:id/publish" :>
        <<Mw("authenticate"), Mw("requireAuthor"), Val("articleParams", "params")>>)
    @@ ("PATCH /api/articles/:id/archive" :>
        <<Mw("authenticate"), Mw("requireAuthor"), Val("articleParams", "params")>>)
    @@ ("DELETE /api/articles/:id" :>
        <<Mw("authenticate"), Mw("requireAuthor"), Val("articleParams", "params")>>)
    @@ ("PUT /api/comments/:id" :>
        <<Mw("authenticate"), Val("commentParams", "params"),
          Val("updateComment", "body")>>)
    @@ ("DELETE /api/comments/:id" :>
        <<Mw("authenticate"), Val("commentParams", "params")>>)
    @@ ("PATCH /api/comments/:id/approve" :>
        <<Mw("authenticate"), Mw("requireEditor"), Val("commentParams", "params")>>)
    @@ ("PATCH /api/comments/:id/reject" :>
        <<Mw("authenticate"), Mw("requireEditor"), Val("commentParams", "params")>>)
    @@ ("PATCH /api/comments/:id/spam" :>
        <<Mw("authenticate"), Mw("requireEditor"), Val("commentParams", "params")>>)
    @@ ("DELETE /api/categories/:id" :>
        <<Mw("authenticate"), Mw("requireAdmin"), Val("categoryParams", "params")>>)

\* one middleware: what it hands to next (calls), the status of the response
\* it sends itself (0: none) and the request it leaves
applyMiddleware(stage, req) ==
    CASE stage.name = "authenticate" ->
             LET a == authenticate(req.header, users, now, TRUE) IN
             [calls |-> a.calls, status |-> 0, req |-> [req EXCEPT !.user = a.user]]
      [] stage.name = "requireAuthor" ->
             [calls |-> requireAuthor(req.user), status |-> 0, req |-> req]
      [] stage.name = "requireEditor" ->
             [calls |-> requireEditor(req.user), status |-> 0, req |-> req]
      [] stage.name = "requireAdmin" ->
             [calls |-> requireAdmin(req.user), status |-> 0, req |-> req]
      [] stage.name = "validate" ->
             LET v == validate(safeParse(stage.schema, req[stage.source])) IN
             [calls |-> v.calls, status |-> v.status,
              req |-> IF v.calls = <<NoError>>
                      THEN [req EXCEPT ![stage.source] = v.data] ELSE req]

\* the router: next() runs the following middleware, next(err) the error
\* handler; status 0 means that every middleware called next()
RECURSIVE runMiddleware(_, _, _)
runMiddleware(stages, req, trace) ==
    IF stages = <<>>
    THEN [trace |-> trace, status |-> 0, req |-> req]
    ELSE LET out == applyMiddleware(Head(stages), req)
             ran == Append(trace, Head(stages).name)
         IN  IF out.calls = <<NoError>>
             THEN runMiddleware(Tail(stages), out.req, ran)
             ELSE IF out.calls = <<>>
             THEN [trace |-> ran, status |-> out.status, req |-> out.req]
             ELSE [trace |-> ran, status |-> errorHandler(out.calls[1]).statusCode,
                   req |-> out.req]

\* what a controller leaves: the tables and the status of the response
Same(code) ==
    [as |-> articles, nid |-> nextArticleId, cs |-> comments, cats |-> categories,
     code |-> code]
Status(err, ok) == IF err = NoError THEN ok ELSE errorHandler(err).statusCode

ModerationRoutes ==
    {"PATCH /api/comments/:id/approve", "PATCH /api/comments/:id/reject",
     "PATCH /api/comments/:id/spam"}

\* the controllers of the three routers: if (!req.user) 401 (not in the
\* moderation and category controllers), if (!req.params.id) 400, then the
\* service call; a thrown error goes to errorHandler
controller(route, req) ==
    LET id == req.params.id IN
    IF route \notin ModerationRoutes \cup {"DELETE /api/categories/:id"} /\ req.user = NoUser
    THEN Same(errorHandler(ApiError(401)).statusCode)
    ELSE IF route # "POST /api/articles" /\ id = 0
    THEN Same(errorHandler(ApiError(400)).statusCode)
    ELSE CASE route = "POST /api/articles" ->
                  LET r == createArticle(articles, nextArticleId, categories, tags,
                                         req.body, req.user.id, now)
                  IN  [Same(Status(r.err, 201)) EXCEPT !.as = r.as, !.nid = r.nid]
           [] route = "PUT /api/articles/:id" ->
                  LET r == updateArticle(articles, id, categories, tags, req.body,
                                         req.user.id, req.user.role, now)
                  IN  [Same(Status(r.err, 200)) EXCEPT !.as = r.as]
           [] route = "PATCH /api/articles/:id/publish" ->
                  LET r == publishArticle(articles, id, now)
                  IN  [Same(Status(r.err, 200)) EXCEPT !.as = r.as]
           [] route = "PATCH /api/articles/:id/archive" ->
                  LET r == archiveArticle(articles, id)
                  IN  [Same(Status(r.err, 200)) EXCEPT !.as = r.as]
           [] route = "DELETE /api/articles/:id" ->
                  LET r == deleteArticle(articles, id, req.user.id, req.user.role)
                  IN  [Same(Status(r.err, 200)) EXCEPT !.as = r.as]
           [] route = "PUT /api/comments/:id" ->
                  LET r == updateComment(comments, id, req.body.content,
                                         req.user.id, req.user.role)
                  IN  [Same(Status(r.err, 200)) EXCEPT !.cs = r.cs]
           [] route = "DELETE /api/comments/:id" ->
                  LET r == deleteComment(comments, id, req.user.id, req.user.role)
                  IN  [Same(Status(r.err, 200)) EXCEPT !.cs = r.cs]
           [] route = "PATCH /api/comments/:id/approve" ->
                  LET r == approveComment(comments, id)
                  IN  [Same(Status(r.err, 200)) EXCEPT !.cs = r.cs]
           [] route = "PATCH /api/comments/:id/reject" ->
                  LET r == rejectComment(comments, id)
                  IN  [Same(Status(r.err, 200)) EXCEPT !.cs = r.cs]
           [] route = "PATCH /api/comments/:id/spam" ->
                  LET r == markAsSpam(comments, id)
                  IN  [Same(Status(r.err, 200)) EXCEPT !.cs = r.cs]
           [] route = "DELETE /api/categories/:id" ->
                  LET r == deleteCategory(categories, articles, id)
                  IN  [Same(Status(r.err, 200)) EXCEPT !.cats = r.cats]

Request(route, header, params, body) ==
    /\ route = "POST /api/articles" => nextArticleId <= MaxRouteArticles
    /\ LET m == runMiddleware(RouteChains[route],
                              [header |-> header, params |-> params, body |-> body,
                               user |-> NoUser], <<>>)
           c == IF m.status = 0 THEN controller(route, m.req) ELSE Same(m.status)
       IN  /\ articles' = c.as
           /\ nextArticleId' = c.nid
           /\ comments' = c.cs
           /\ categories' = c.cats
           /\ everPublished' = everPublished \cup PublishedIds(c.as)
           /\ res' = [op |-> "request", route |-> route, header |-> header,
                      params |-> params, body |-> body,
                      trace |-> IF m.status = 0 THEN Append(m.trace, "controller")
                                ELSE m.trace,
                      code |-> c.code]
    /\ UNCHANGED <<now, procs, tags>>
    /\ UNCHANGED <<users, mw, nextCommentId, last, listing, mediaVars>>

\* no Authorization header, an expired token of the author, and the valid
\* tokens of the admin and of the author
ExpiredHeader ==
    [scheme |-> "Bearer", token |-> [userId |-> 3, sig |-> "access", exp |-> 1]]
RouteHeaders ==
    {NoHeader, ExpiredHeader}
    \cup [scheme : {"Bearer"},
          token : [userId : {1, 3}, sig : {"access"}, exp : {MaxTime + 1}]]

NoBody == [none |-> Absent]
\* every route with a well-formed and a malformed input; the routes whose
\* middleware chain repeats that of another route are asked for a row that
\* does not exist
RouteRequests ==
    [route : {"POST /api/articles"}, params : {[id |-> Absent]},
     body : [title : {HiYou}, content : {"x", ""}, categoryId : {2, Null},
             tagIds : {NoTagIds}, status : {Absent}]]
    \cup [route : {"PUT /api/articles/:id"}, params : [id : {"1", "abc"}],
          body : [title : {NoTitle, <<>>}, content : {Absent}, categoryId : {Null},
                  tagIds : {NoTagIds}, status : {Absent}]]
    \cup [route : {"PATCH /api/articles/:id/publish"},
          params : [id : {"2", "abc"}], body : {NoBody}]
    \cup [route : {"DELETE /api/articles/:id"}, params : [id : {"2", "abc"}],
          body : {NoBody}]
    \cup [route : {"PUT /api/comments/:id"}, params : [id : {"1", "abc"}],
          body : UpdateBodies]
    \cup [route : {"PATCH /api/comments/:id/approve"},
          params : [id : {"1", "abc"}], body : {NoBody}]
    \cup [route : {"PATCH /api/articles/:id/archive", "DELETE /api/comments/:id",
                   "PATCH /api/comments/:id/reject", "PATCH /api/comments/:id/spam"},
          params : [id : {"9", "abc"}], body : {NoBody}]
    \cup [route : {"DELETE /api/categories/:id"}, params : [id : {"3", "abc"}],
          body : {NoBody}]

\* the database holds the three categories, a published article of the author
\* filed under category 2 and a pending comment of the author on it
InitRoutes ==
    /\ users = InitUsers /\ mw = NoMw /\ last = NoLast /\ listing = <<>>
    /\ media = <<>> /\ nextMediaId = 1 /\ objects = {}
    /\ now = 1
    /\ articles = (1 :> [title |-> HiYou, slug |-> generateSlug(HiYou), authorId |-> 3,
                         categoryId |-> 2, status |-> "PUBLISHED", publishedAt |-> 1,
                         tagIds |-> {}])
    /\ nextArticleId = 2
    /\ everPublished = {1}
    /\ comments = (1 :> [articleId |-> 1, userId |-> 3, parentId |-> Null,
                         content |-> "x", authorName |-> Absent,
                         authorEmail |-> Absent, status |-> "PENDING"])
    /\ nextCommentId = 2
    /\ categories = [c \in CategoryIds |-> [parentId |-> IF c = 2 THEN 1 ELSE Null]]
    /\ tags = {}
    /\ procs = <<>>
    /\ res = NoRes

NextRoutes ==
    \E r \in RouteRequests, header \in RouteHeaders :
        Request(r.route, header, r.params, r.body)

SpecRoutes == InitRoutes /\ [][NextRoutes]_vars

Unauthenticated == res.header \in {NoHeader, ExpiredHeader}
InvalidInput ==
    \E i \in 1..Len(RouteChains[res.route]) :
        LET stage == RouteChains[res.route][i] IN
        /\ stage.name = "validate"
        /\ ~safeParse(stage.schema, res[stage.source]).success
Gates == {"authenticate", "requireAuthor", "requireEditor", "requireAdmin"}

RECURSIVE withReplies(_, _)
withReplies(cs, S) ==
    LET more == {c \in DOMAIN cs : cs[c].parentId \in S} \ S
    IN  IF more = {} THEN S ELSE withReplies(cs, S \cup more)

\* DELETE of the rows S of comments: comments_parent_id_fkey cascades
commentDeleteMany(cs, S) ==
    [c \in DOMAIN cs \ withReplies(cs, S) |-> cs[c]]

\* DELETE of the rows S of articles: comments_article_id_fkey cascades
articleDeleteMany(as, cs, S) ==
    [as |-> [a \in DOMAIN as \ S |-> as[a]],
     cs |-> commentDeleteMany(cs, {c \in DOMAIN cs : cs[c].articleId \in S})]

\* UserService.deleteUser: prisma.user.delete with the foreign keys' actions
userDelete(us, as, cs, id) ==
    IF ~us[id].exists
    THEN [us |-> us, as |-> as, cs |-> cs, err |-> PrismaKnownError("P2025")]
    ELSE LET gone == articleDeleteMany(as, cs, {a \in DOMAIN as : as[a].authorId = id})
         IN  [us |-> deleteUser(us, id),
              as |-> gone.as,
              cs |-> [c \in DOMAIN gone.cs |->
                         IF gone.cs[c].userId = id
                         THEN [gone.cs[c] EXCEPT !.userId = Null]
                         ELSE gone.cs[c]],
              err |-> NoError]

(***************************************************************************)
(* SpecGuests: CommentService, ArticleService.deleteArticle and            *)
(* UserService.deleteUser called directly over two stored articles; res is *)
(* the last call and the status of its error, 0 for none.                  *)
(***************************************************************************)
guestFrame == <<now, mw, last, listing, nextArticleId, everPublished, procs,
                categories, tags, mediaVars>>

GuestCalled(op, id, userId, err) ==
    [op |-> op, id |-> id, userId |-> userId, code |-> Outcome(err)]

SubmitComment(data, userId) ==
    /\ nextCommentId <= MaxComments
    /\ userId # Null => users[userId].exists
    /\ LET r == createComment(comments, nextCommentId, DOMAIN articles, data, userId)
       IN  /\ comments' = r.cs
           /\ nextCommentId' = r.nid
           /\ res' = GuestCalled("createComment", r.id, userId, r.err)
    /\ UNCHANGED <<users, articles>>
    /\ UNCHANGED guestFrame

EditComment(id, userId) ==
    /\ users[userId].exists
    /\ LET r == updateComment(comments, id, "y", userId, users[userId].role)
       IN  /\ comments' = r.cs
           /\ res' = GuestCalled("updateComment", id, userId, r.err)
    /\ UNCHANGED <<users, articles, nextCommentId>>
    /\ UNCHANGED guestFrame

ModerateComment(id) ==
    /\ LET r == approveComment(comments, id)
       IN  /\ comments' = r.cs
           /\ res' = GuestCalled("approveComment", id, Null, r.err)
    /\ UNCHANGED <<users, articles, nextCommentId>>
    /\ UNCHANGED guestFrame

RemoveArticle(id, userId) ==
    /\ users[userId].exists
    /\ LET r == deleteArticle(articles, id, userId, users[userId].role)
           gone == articleDeleteMany(articles, comments, DOMAIN articles \ DOMAIN r.as)
       IN  /\ articles' = gone.as
           /\ comments' = gone.cs
           /\ res' = GuestCalled("deleteArticle", id, userId, r.err)
    /\ UNCHANGED <<users, nextCommentId>>
    /\ UNCHANGED guestFrame

RemoveUser(id) ==
    /\ LET r == userDelete(users, articles, comments, id)
       IN  /\ users' = r.us
           /\ articles' = r.as
           /\ comments' = r.cs
           /\ res' = GuestCalled("deleteUser", id, Null, r.err)
    /\ UNCHANGED nextCommentId
    /\ UNCHANGED guestFrame

GuestBodies ==
    [articleId : {1, 2}, parentId : {Null, 1}, content : {"x"},
     authorName : {Absent, "Guest"}, authorEmail : {Absent} \cup ValidEmails]

SeedArticle(authorId, slug) ==
    [title |-> HiYou, slug |-> slug, authorId |-> authorId, categoryId |-> Null,
     status |-> "PUBLISHED", publishedAt |-> 1, tagIds |-> {}]

\* article 1 is the admin's, article 2 the author's
InitGuests ==
    /\ InitCore
    /\ now = 1
    /\ articles = (1 :> SeedArticle(1, "hi-you")) @@ (2 :> SeedArticle(3, "hi-you-1"))
    /\ nextArticleId = 3
    /\ everPublished = {1, 2}
    /\ procs = <<>>
    /\ categories = <<>>
    /\ tags = {}
    /\ res = NoRes

NextGuests ==
    \/ \E data \in GuestBodies, u \in {Null, 3} : SubmitComment(data, u)
    \/ \E id \in 1..MaxComments, u \in {1, 3} : EditComment(id, u)
    \/ \E id \in 1..MaxComments : ModerateComment(id)
    \/ \E id \in {1, 2}, u \in {1, 3} : RemoveArticle(id, u)
    \/ \E u \in {3} : RemoveUser(u)

SpecGuests == InitGuests /\ [][NextGuests]_vars

\* C21: in every reachable state every comment whose userId is null has both
\* authorName and authorEmail, and a guest submission missing either field
\* is rejected with 400; no createComment, updateComment, moderation, user
\* deletion or article deletion leaves a comment without an identity.
C21_GuestsCarryIdentity ==
    /\ \A c \in DOMAIN comments :
           comments[c].userId = Null =>
               comments[c].authorName # Absent /\ comments[c].authorEmail # Absent
    /\ (res.op = "createComment" /\ res.userId = Null /\ res.id # Null) =>
           comments[res.id].authorName # Absent /\ comments[res.id].authorEmail # Absent

(***************************************************************************)
(* SpecOwnership: the article routes that change a stored article, asked   *)
(* by the admin, the editor and the author while the clock runs.  Article  *)
(* 1 is the author's and published, article 2 the editor's and a draft.    *)
(***************************************************************************)
OwnerHeaders ==
    [scheme : {"Bearer"},
     token : [userId : UserIds, sig : {"access"}, exp : {MaxTime + 1}]]

OwnerRequests ==
    [route : {"PUT /api/articles/:id"}, params : [id : {"1", "2", "9"}],
     body : [title : {NoTitle}, content : {Absent}, categoryId : {Null},
             tagIds : {NoTagIds}, status : {"PUBLISHED"}]]
    \cup [route : {"DELETE /api/articles/:id"}, params : [id : {"1", "2", "9"}],
          body : {NoBody}]
    \cup [route : {"PATCH /api/articles/:id/publish", "PATCH /api/articles/:id/archive"},
          params : [id : {"1", "2"}], body : {NoBody}]

InitOwnership ==
    /\ InitCore
    /\ now = 1
    /\ articles = (1 :> SeedArticle(3, "hi-you"))
                  @@ (2 :> [SeedArticle(2, "hi-you-1") EXCEPT
                               !.status = "DRAFT", !.publishedAt = Null])
    /\ nextArticleId = 3
    /\ everPublished = {1}
    /\ procs = <<>>
    /\ categories = <<>>
    /\ tags = {}
    /\ res = NoRes

NextOwnership ==
    \/ \E r \in OwnerRequests, header \in OwnerHeaders :
           Request(r.route, header, r.params, r.body)
    \/ Tick

SpecOwnership == InitOwnership /\ [][NextOwnership]_vars

\* the requester and the article of the request that the step answers
Requester == res'.header.token.userId
Requested == Number(res'.params.id)
NotOwnerNorAdmin(id) ==
    articles[id].authorId # Requester /\ users[Requester].role # "ADMIN"

\* C22: PUT and DELETE /api/articles/:id succeed only for the article's
\* author or an ADMIN; every other requester, an EDITOR included, gets 403
\* and the tables stay as they are; a missing article gives 404 whoever asks.
OwnerStep ==
    (res'.op = "request" /\ now' = now
     /\ res'.route \in {"PUT /api/articles/:id", "DELETE /api/articles/:id"}) =>
        /\ Requested \notin DOMAIN articles =>
               res'.code = 404 /\ articles' = articles
        /\ (Requested \in DOMAIN articles /\ NotOwnerNorAdmin(Requested)) =>
               res'.code = 403 /\ articles' = articles
        /\ (Requested \in DOMAIN articles /\ ~NotOwnerNorAdmin(Requested)) =>
               res'.code = 200
C22_OwnerOrAdminOnly == [][OwnerStep]_vars
C22_Witness ==
    /\ res.op = "request"
    /\ res.route = "DELETE /api/articles/:id"
    /\ res.header.token.userId = 2
    /\ res.params.id = "1"
    /\ res.code = 403
    /\ 1 \in DOMAIN articles

\* C23: no request of a user who is not ADMIN changes any field of an
\* article written by someone else, publish and archive included.
ForeignArticlesKept ==
    (res'.op = "request" /\ now' = now) =>
        \A id \in DOMAIN articles :
            NotOwnerNorAdmin(id) => id \in DOMAIN articles' /\ articles'[id] = articles[id]
C23_ForeignArticlesKept == [][ForeignArticlesKept]_vars

\* C28: once publishedAt is set no update, archive or publish changes it.
PublishedAtKept ==
    \A id \in DOMAIN articles \cap DOMAIN articles' :
        articles[id].publishedAt # Null =>
            articles'[id].publishedAt = articles[id].publishedAt
C28_PublishedAtKept == [][PublishedAtKept]_vars

(***************************************************************************)
(* controllers/authController.ts: login, logout and refreshToken.  The     *)
(* payload of a token is {userId, email, role}; the clock counts access    *)
(* token lifetimes, so a refresh token (30d against 7d) lives four ticks.  *)
(***************************************************************************)
JWT_REFRESH_EXPIRES_IN == 4

NoTokens == [accessToken |-> NoToken, refreshToken |-> NoToken]

\* generateToken(payload) and generateRefreshToken(payload) at time t
generateTokens(user, t) ==
    [accessToken |-> [userId |-> user.id, sig |-> "access",
                      exp |-> t + JWT_EXPIRES_IN, role |-> user.role],
     refreshToken |-> [userId |-> user.id, sig |-> "refresh",
                       exp |-> t + JWT_REFRESH_EXPIRES_IN, role |-> user.role]]

\* jwt.verify(token, JWT_REFRESH_SECRET)
verifyRefreshToken(token, t) ==
    IF token.sig # "refresh" THEN [ok |-> FALSE, name |-> "JsonWebTokenError", userId |-> Null]
    ELSE IF token.exp <= t THEN [ok |-> FALSE, name |-> "TokenExpiredError", userId |-> Null]
    ELSE [ok |-> TRUE, name |-> Absent, userId |-> token.userId]

\* email: the id of the user who registered it, Null for an unknown address
login(us, email, passwordOk, t) ==
    LET user == userFindUnique(us, email) IN
    IF user = NoUser
    THEN [err |-> ApiError(401), tokens |-> NoTokens]
    ELSE IF ~user.isActive
    THEN [err |-> ApiError(403), tokens |-> NoTokens]
    ELSE IF ~passwordOk
    THEN [err |-> ApiError(401), tokens |-> NoTokens]
    ELSE [err |-> NoError, tokens |-> generateTokens(user, t)]

\* every error thrown inside the try (getUserById's 404 included) becomes 401
refreshToken(us, token, t) ==
    IF token = NoToken
    THEN [err |-> ApiError(400), tokens |-> NoTokens]
    ELSE LET payload == verifyRefreshToken(token, t) IN
         IF ~payload.ok
         THEN [err |-> ApiError(401), tokens |-> NoTokens]
         ELSE LET user == userFindUnique(us, payload.userId) IN
              IF user = NoUser
              THEN [err |-> ApiError(401), tokens |-> NoTokens]
              ELSE [err |-> NoError, tokens |-> generateTokens(user, t)]

\* mutant: logging out disables the account of the token's user
logout_deactivates(us, header) ==
    IF header.token.userId \in UserIds
    THEN deactivateUser(us, header.token.userId)
    ELSE us

\* the handler reads nothing of the request and writes nothing
logout(us, header) == us

\* prisma.user.update({where: {id}, data: {role}})
changeUserRole(us, id, role) ==
    IF us[id].exists THEN [us EXCEPT ![id].role = role] ELSE us

(***************************************************************************)
(* SpecSessions: the middleware of SpecAuth with the auth controller and   *)
(* changeUserRole.  Tokens are those the server can have issued to the     *)
(* admin and to the author at times 0..MaxTime, with any role claim.       *)
(***************************************************************************)
SessionCalled(name, userId, header, err, tokens, accepted) ==
    [name |-> name, userId |-> userId, header |-> header,
     code |-> IF err = NoError THEN 200 ELSE errorHandler(err).statusCode,
     tokens |-> tokens, accepted |-> accepted]

Login(email, passwordOk) ==
    /\ LET r == login(users, email, passwordOk, now)
       IN  mw' = SessionCalled("login", email, NoHeader, r.err, r.tokens, FALSE)
    /\ UNCHANGED <<users, now, comments, nextCommentId, last, listing>>
    /\ UNCHANGED contentVars

RefreshToken(token) ==
    /\ LET r == refreshToken(users, token, now)
       IN  mw' = SessionCalled("refreshToken", token.userId, NoHeader, r.err,
                               r.tokens, FALSE)
    /\ UNCHANGED <<users, now, comments, nextCommentId, last, listing>>
    /\ UNCHANGED contentVars

Logout(header) ==
    /\ users' = logout(users, header)
    /\ mw' = SessionCalled("logout", header.token.userId, header, NoError, NoTokens,
                           authenticate(header, users, now, TRUE).calls = <<NoError>>)
    /\ UNCHANGED <<now, comments, nextCommentId, last, listing>>
    /\ UNCHANGED contentVars

ChangeUserRole(id, role) ==
    /\ users' = changeUserRole(users, id, role)
    /\ mw' = NoMw
    /\ UNCHANGED <<now, comments, nextCommentId, last, listing>>
    /\ UNCHANGED contentVars

SessionTokens ==
    [userId : {1, 3}, sig : {"access"}, exp : 1..(MaxTime + 1), role : {"ADMIN", "AUTHOR"}]
RefreshTokens ==
    [userId : {3}, sig : {"refresh"}, exp : {JWT_REFRESH_EXPIRES_IN}, role : {"AUTHOR"}]
SessionHeaders == {NoHeader} \cup [scheme : {"Bearer"}, token : SessionTokens]

InitSessions == InitCommon

NextSessions ==
    \/ \E h \in SessionHeaders : Authenticate(h, TRUE)
    \/ \E h \in SessionHeaders, g \in GateNames : RoleGate(h, g)
    \/ \E u \in {Null, 3}, p \in BOOLEAN : Login(u, p)
    \/ \E t \in RefreshTokens \cup {NoToken} \cup SessionTokens : RefreshToken(t)
    \/ \E h \in SessionHeaders : Logout(h)
    \/ DeactivateUser(3)
    \/ ActivateUser(3)
    \/ \E r \in {"ADMIN", "AUTHOR"} : ChangeUserRole(3, r)
    \/ Tick

SpecSessions == InitSessions /\ [][NextSessions]_vars

\* C24: logout answers 200 and changes nothing on the server: a token that
\* authenticate accepted when /auth/logout was called is accepted right
\* after it, and the user table is the one before the call; verifyToken
\* reads the signature and the expiry of a token and nothing else.
C24_LogoutRevokesNothing ==
    /\ mw.name = "logout" =>
           /\ mw.code = 200
           /\ mw.accepted => authenticate(mw.header, users, now, TRUE).calls = <<NoError>>
    /\ \A h \in SessionHeaders :
           authenticate(h, users, now, TRUE).calls = <<NoError>> =>
               authenticate(h, logout(users, h), now, TRUE).calls = <<NoError>>
    /\ \A a, b \in SessionTokens :
           (a.sig = b.sig /\ a.exp = b.exp) =>
               verifyToken(a, now).ok = verifyToken(b, now).ok
C24_Witness ==
    /\ mw.name = "logout"
    /\ mw.accepted
    /\ mw.header.token.userId = 3
    /\ authenticate(mw.header, users, now, TRUE).calls = <<NoError>>

\* C27: while a user's isActive is false neither login nor refresh issues
\* a token for that user.
C27_NoTokensWhileDeactivated ==
    (mw.name \in {"login", "refreshToken"} /\ mw.userId \in UserIds) =>
        (~users[mw.userId].isActive => mw.code # 200 /\ mw.tokens = NoTokens)

\* the request that mw answers bears a token with a good signature
MwUser == mw.header.token.userId
MwSigned ==
    /\ mw.name \in {"authenticate", "requireRole"}
    /\ mw.header.scheme = "Bearer"
    /\ mw.header.token.sig = "access"
MwAllowed ==
    CASE mw.gateName = "requireAdmin" -> AdminRoles
      [] mw.gateName = "requireEditor" -> EditorRoles
      [] OTHER -> AuthorRoles

\* C30 as stated: after a deactivation every request bearing a token issued
\* earlier is rejected with 403 until the user is reactivated.
C30_DeactivatedAlways403 ==
    (MwSigned /\ mw.name = "authenticate" /\ ~users[MwUser].isActive) =>
        mw.calls = <<ApiError(403)>>

\* C30 with the expiry of the token taken into account: a request bearing
\* an unexpired token is decided by the stored row at request time (403
\* while isActive is false, accepted again once it is true, req.user.role
\* and the role gate read from the row and not from the token's claim); a
\* request bearing an expired token is rejected with 401 whatever the row.
C30_StoredRecordDecides ==
    MwSigned =>
        LET row == users[MwUser]
            live == mw.header.token.exp > now
        IN  /\ mw.name = "authenticate" =>
                   /\ ~live => mw.calls = <<ApiError(401)>>
                   /\ (live /\ ~row.isActive) => mw.calls = <<ApiError(403)>>
                   /\ (live /\ row.isActive) =>
                          mw.calls = <<NoError>> /\ mw.user.role = row.role
            /\ mw.name = "requireRole" =>
                   /\ mw.gate = <<NoError>> <=>
                          (live /\ row.isActive /\ row.role \in MwAllowed)
                   /\ mw.user # NoUser => mw.user.role = row.role
C30_Witness ==
    /\ MwSigned
    /\ mw.name = "requireRole"
    /\ mw.gateName = "requireAdmin"
    /\ MwUser = 3
    /\ mw.header.token.role = "AUTHOR"
    /\ users[3].role = "ADMIN"
    /\ mw.gate = <<NoError>>

(***************************************************************************)
(* GET /api/comments/:id: the route has no authenticator and no validator; *)
(* the controller hands parseInt(req.params.id) to the service.            *)
(***************************************************************************)
\* findUnique with include replies: no status in the where, none in the
\* include; the comment and all its direct replies are returned
getCommentById(cs, id) ==
    IF id \notin DOMAIN cs
    THEN [err |-> ApiError(404), data |-> <<>>]
    ELSE LET r == SeqAsc({c \in DOMAIN cs : cs[c].parentId = id})
         IN  [err |-> NoError,
              data |-> <<[id |-> id,
                          replies |-> [i \in 1..Len(r) |-> [id |-> r[i], replies |-> <<>>]]]>>]

GetCommentById(id) ==
    /\ LET r == getCommentById(comments, id) IN
       /\ listing' = r.data
       /\ last' = Called("getCommentById", id, Outcome(r.err))
    /\ UNCHANGED <<users, now, mw, comments, nextCommentId>>
    /\ UNCHANGED contentVars

(***************************************************************************)
(* SpecReads: SpecListing with the single-comment read; listing is the     *)
(* body of the last read, both reads asked without a token.                *)
(***************************************************************************)
InitReads == InitCommon

NextReads ==
    \/ \E d \in {b \in TreeBodies : b.articleId = 1} : CreateComment(d, 3)
    \/ \E c \in 1..MaxTreeComments : ApproveComment(c)
    \/ \E c \in 1..MaxTreeComments : RejectComment(c)
    \/ GetArticleComments(1)
    \/ \E c \in 1..(MaxTreeComments + 1) : GetCommentById(c)

SpecReads == InitReads /\ [][NextReads]_vars

\* C26: no read open to an unauthenticated request returns a comment that
\* is not APPROVED, neither the article listing nor GET /comments/:id (the
\* comment itself and the replies returned with it).
C26_PublicReadsApprovedOnly ==
    last.op \in {"getArticleComments", "getCommentById"} =>
        \A c \in ListedIds : c \in DOMAIN comments /\ comments[c].status = "APPROVED"

(***************************************************************************)
(* SpecReplies: one DELETE /api/comments/:id and one POST /api/comments in *)
(* flight.  deleteComment yields at its findUnique (the checks that follow *)
(* are synchronous) and at prisma.comment.delete; createComment yields at  *)
(* its lookups and at prisma.comment.create.  procs.del and procs.cre are  *)
(* the positions of the two requests and the status of their responses.    *)
(***************************************************************************)
\* prisma.comment.delete({where: {id}}): P2025 without the row, otherwise
\* the row goes and comments_parent_id_fkey takes its replies with it
commentDelete(cs, id) ==
    IF id \notin DOMAIN cs
    THEN [cs |-> cs, err |-> PrismaKnownError("P2025")]
    ELSE [cs |-> commentDeleteMany(cs, {id}), err |-> NoError]

\* prisma.comment.create: P2003 when the article or the parent is not there
commentCreate(cs, nid, arts, data, userId) ==
    IF data.articleId \notin arts \/ (data.parentId # Null /\ data.parentId \notin DOMAIN cs)
    THEN [cs |-> cs, nid |-> nid, err |-> PrismaKnownError("P2003"), id |-> Null]
    ELSE [cs |-> cs @@ (nid :> [articleId |-> data.articleId,
                                userId |-> userId,
                                parentId |-> data.parentId,
                                content |-> data.content,
                                authorName |-> data.authorName,
                                authorEmail |-> data.authorEmail,
                                status |-> "PENDING"]),
          nid |-> nid + 1, err |-> NoError, id |-> nid]

IdleDelete == [pc |-> "idle", id |-> Null, userId |-> Null, code |-> 0]
IdleCreate == [pc |-> "idle", data |-> [parentId |-> Null], userId |-> Null, code |-> 0]

replyFrame == <<users, now, mw, last, listing, articles, nextArticleId, everPublished,
                categories, tags, res, mediaVars>>

\* findUnique with _count.replies, then the 404 / 403 / 400 checks
FindComment(id, userId) ==
    /\ procs.del.pc \in {"idle", "done"}
    /\ LET r == deleteComment(comments, id, userId, users[userId].role)
       IN  procs' = [procs EXCEPT !.del =
               [pc |-> IF r.err = NoError THEN "delete" ELSE "done",
                id |-> id, userId |-> userId, code |-> Outcome(r.err)]]
    /\ UNCHANGED <<comments, nextCommentId>>
    /\ UNCHANGED replyFrame

\* await prisma.comment.delete, then the controller's 200 or the error handler
DeleteRow ==
    /\ procs.del.pc = "delete"
    /\ LET r == commentDelete(comments, procs.del.id)
       IN  /\ comments' = r.cs
           /\ procs' = [procs EXCEPT !.del.pc = "done",
                                     !.del.code = IF r.err = NoError THEN 200
                                                  ELSE errorHandler(r.err).statusCode]
    /\ UNCHANGED nextCommentId
    /\ UNCHANGED replyFrame

\* the lookups of the article and of the parent, then the guest check
FindParent(data, userId) ==
    /\ procs.cre.pc \in {"idle", "done"}
    /\ nextCommentId <= MaxTreeComments
    /\ LET r == createComment(comments, nextCommentId, ArticleIds, data, userId)
       IN  procs' = [procs EXCEPT !.cre =
               [pc |-> IF r.err = NoError THEN "create" ELSE "done",
                data |-> data, userId |-> userId, code |-> Outcome(r.err)]]
    /\ UNCHANGED <<comments, nextCommentId>>
    /\ UNCHANGED replyFrame

\* await prisma.comment.create, then the controller's 201 or the error handler
InsertComment ==
    /\ procs.cre.pc = "create"
    /\ LET r == commentCreate(comments, nextCommentId, ArticleIds, procs.cre.data,
                              procs.cre.userId)
       IN  /\ comments' = r.cs
           /\ nextCommentId' = r.nid
           /\ procs' = [procs EXCEPT !.cre.pc = "done",
                                     !.cre.code = IF r.err = NoError THEN 201
                                                  ELSE errorHandler(r.err).statusCode]
    /\ UNCHANGED replyFrame

ReplyBodies ==
    [articleId : {1}, content : {"x"}, parentId : {Null} \cup (1..MaxTreeComments),
     authorName : {Absent}, authorEmail : {Absent}]

InitReplies ==
    /\ InitCore
    /\ now = 1
    /\ articles = <<>> /\ nextArticleId = 1 /\ everPublished = {}
    /\ categories = <<>> /\ tags = {} /\ res = NoRes
    /\ procs = [del |-> IdleDelete, cre |-> IdleCreate]

NextReplies ==
    \/ \E id \in 1..MaxTreeComments, u \in {1, 3} : FindComment(id, u)
    \/ DeleteRow
    \/ \E data \in ReplyBodies, u \in {2, 3} : FindParent(data, u)
    \/ InsertComment

SpecReplies == InitReplies /\ [][NextReplies]_vars

\* C25: whatever the interleaving of a deleteComment(c) with a createComment
\* whose parentId is c, the only row a step removes is the comment whose
\* deletion was asked for and it has no reply when it goes, and no stored
\* reply is ever without its parent.
RepliesSurvive ==
    /\ \A c \in DOMAIN comments \ DOMAIN comments' :
           c = procs.del.id /\ replyCount(comments, c) = 0
    /\ \A c \in DOMAIN comments' :
           comments'[c].parentId # Null => comments'[c].parentId \in DOMAIN comments'
C25_RepliesSurvive == [][RepliesSurvive]_vars

(***************************************************************************)
(* services/mediaService.ts and utils/uploadToR2.ts.  media is the table   *)
(* (id -> filename, uploadedBy), objects the keys the bucket holds.  The   *)
(* key of an upload is randomBytes(16): any key no object or row has yet.  *)
(* storageUp / dbUp: whether the call to the bucket / to the database      *)
(* succeeds.                                                               *)
(***************************************************************************)
MaxMedia == 2
MaxKeys == 3
MediaKeys == 1..MaxKeys

filenames(md) == {md[m].filename : m \in DOMAIN md}

\* try { uploadToR2; prisma.media.create } catch { throw new ApiError(500) }
\* the insert also fails when the uploader's row is gone (media_uploaded_by_fkey)
uploadMedia(md, nid, objs, us, key, uploadedBy, storageUp, dbUp) ==
    IF ~storageUp
    THEN [md |-> md, nid |-> nid, objs |-> objs, err |-> ApiError(500)]
    ELSE IF ~dbUp \/ ~us[uploadedBy].exists
    THEN [md |-> md, nid |-> nid, objs |-> objs \cup {key}, err |-> ApiError(500)]
    ELSE [md |-> md @@ (nid :> [filename |-> key, uploadedBy |-> uploadedBy]),
          nid |-> nid + 1, objs |-> objs \cup {key}, err |-> NoError]

\* files.map(uploadMedia) under Promise.all: every file is uploaded on its
\* own, the request fails with the first error
RECURSIVE uploadMultipleMedia(_, _, _, _, _, _)
uploadMultipleMedia(md, nid, objs, us, files, uploadedBy) ==
    IF files = <<>>
    THEN [md |-> md, nid |-> nid, objs |-> objs, err |-> NoError]
    ELSE LET f == Head(files)
             r == uploadMedia(md, nid, objs, us, f.key, uploadedBy, f.storageUp, f.dbUp)
             rest == uploadMultipleMedia(r.md, r.nid, r.objs, us, Tail(files), uploadedBy)
         IN  [rest EXCEPT !.err = IF r.err # NoError THEN r.err ELSE rest.err]

\* DeleteObject succeeds whether or not the bucket holds the key
deleteMedia(md, objs, id, userId, userRole, storageUp, dbUp) ==
    IF id \notin DOMAIN md
    THEN [md |-> md, objs |-> objs, err |-> ApiError(404)]
    ELSE IF md[id].uploadedBy # userId /\ userRole # "ADMIN"
    THEN [md |-> md, objs |-> objs, err |-> ApiError(403)]
    ELSE IF ~storageUp
    THEN [md |-> md, objs |-> objs, err |-> ApiError(500)]
    ELSE IF ~dbUp
    THEN [md |-> md, objs |-> objs \ {md[id].filename}, err |-> ApiError(500)]
    ELSE [md |-> [m \in DOMAIN md \ {id} |-> md[m]],
          objs |-> objs \ {md[id].filename}, err |-> NoError]

\* DELETE of the user row id: media_uploaded_by_fkey cascades, the bucket is
\* not told
mediaOfOthers(md, id) == [m \in {n \in DOMAIN md : md[n].uploadedBy # id} |-> md[m]]

mediaFrame == <<now, mw, last, listing, nextArticleId, everPublished, procs,
                categories, tags, nextCommentId>>

MediaCalled(op, id, userId, err) ==
    [op |-> op, id |-> id, userId |-> userId, code |-> Outcome(err)]

FreshKeys == MediaKeys \ (objects \cup filenames(media))

UploadMedia(key, uploadedBy, storageUp, dbUp) ==
    /\ nextMediaId <= MaxMedia
    /\ key \in FreshKeys
    /\ users[uploadedBy].exists
    /\ LET r == uploadMedia(media, nextMediaId, objects, users, key, uploadedBy,
                            storageUp, dbUp)
       IN  /\ media' = r.md
           /\ nextMediaId' = r.nid
           /\ objects' = r.objs
           /\ res' = MediaCalled("uploadMedia", key, uploadedBy, r.err)
    /\ UNCHANGED <<users, articles, comments>>
    /\ UNCHANGED mediaFrame

UploadMultipleMedia(files, uploadedBy) ==
    /\ nextMediaId + 1 <= MaxMedia
    /\ files[1].key \in FreshKeys /\ files[2].key \in FreshKeys
    /\ files[1].key < files[2].key
    /\ users[uploadedBy].exists
    /\ LET r == uploadMultipleMedia(media, nextMediaId, objects, users, files, uploadedBy)
       IN  /\ media' = r.md
           /\ nextMediaId' = r.nid
           /\ objects' = r.objs
           /\ res' = MediaCalled("uploadMultipleMedia", files[1].key, uploadedBy, r.err)
    /\ UNCHANGED <<users, articles, comments>>
    /\ UNCHANGED mediaFrame

DeleteMedia(id, userId, storageUp, dbUp) ==
    /\ users[userId].exists
    /\ LET r == deleteMedia(media, objects, id, userId, users[userId].role, storageUp, dbUp)
       IN  /\ media' = r.md
           /\ objects' = r.objs
           /\ res' = MediaCalled("deleteMedia", id, userId, r.err)
    /\ UNCHANGED <<users, articles, comments, nextMediaId>>
    /\ UNCHANGED mediaFrame

RemoveUploader(id) ==
    /\ LET r == userDelete(users, articles, comments, id)
       IN  /\ users' = r.us
           /\ articles' = r.as
           /\ comments' = r.cs
           /\ media' = IF r.err = NoError THEN mediaOfOthers(media, id) ELSE media
           /\ res' = MediaCalled("deleteUser", id, Null, r.err)
    /\ UNCHANGED <<nextMediaId, objects>>
    /\ UNCHANGED mediaFrame

(***************************************************************************)
(* SpecMedia: MediaService and UserService.deleteUser called directly;     *)
(* either call of an upload or of a deletion may fail.                     *)
(***************************************************************************)
UploadedFiles == [key : MediaKeys, storageUp : BOOLEAN, dbUp : BOOLEAN]

InitMedia == InitCommon

NextMedia ==
    \/ \E k \in MediaKeys, u \in {1, 3}, s, d \in BOOLEAN : UploadMedia(k, u, s, d)
    \/ \E f, g \in UploadedFiles : UploadMultipleMedia(<<f, g>>, 3)
    \/ \E id \in 1..MaxMedia, u \in {1, 2, 3}, s, d \in BOOLEAN : DeleteMedia(id, u, s, d)
    \/ RemoveUploader(3)

SpecMedia == InitMedia /\ [][NextMedia]_vars

\* C29: in every reachable state the bucket holds an object exactly for the
\* keys of the media rows, whichever call failed on the way.
C29_RecordIffObject == objects = filenames(media)

====
